---- MODULE Spec2Model ----
(***************************************************************************)
(* Building-permit crawlers (src/crawlers), the field normalisers they     *)
(* use (src/utils/data_processor.py) and the spreadsheet writer            *)
(* (src/utils/excel_writer.py), as one state machine.                      *)
(*                                                                         *)
(* Text is a sequence of one-character tokens.  ASCII characters stand for *)
(* themselves; the CJK characters the code tests for have ASCII names:     *)
(*   "Y" 年  "M" 月  "D" 日  "zao" 造  "zi" 字  "jian" 建  "shi" 使         *)
(*   "bian" 變  "yong" 用  "zhi" 執  "zhao" 照  "za" 雜  "xiang" 項         *)
(*   "hao" 號  "ma" 碼  "IDSP" U+3000  "FWCOLON" ：  "FWSTAR" ＊             *)
(*   "FWLP" （  "FWRP" ）  "zhi3" 址  "di" 地  "mian" 面  "ji1" 績  "ji2" 積 *)
(* Permit types: "construction" 建造執照, "occupancy" 使用執照, "other" 其它 *)
(***************************************************************************)
EXTENDS Integers, Sequences, FiniteSets, TLC

(***************************************************************************)
(* Calendar dates (datetime.date) are triples <<year, month, day>>;        *)
(* Python's None is the empty tuple.                                       *)
(***************************************************************************)
None == <<>>

EraOffset == 1911

IsLeap(y) == (y % 4 = 0 /\ y % 100 # 0) \/ y % 400 = 0

DaysInMonth(y, m) ==
  IF m \in {4, 6, 9, 11} THEN 30
  ELSE IF m = 2 THEN (IF IsLeap(y) THEN 29 ELSE 28)
  ELSE 31

\* datetime.date(y, m, d): the date, or None where the constructor raises
\* ValueError (year outside 1..9999, month outside 1..12, no such day)
date(y, m, d) ==
  IF /\ y >= 1 /\ y <= 9999
     /\ m >= 1 /\ m <= 12
     /\ d >= 1 /\ d <= DaysInMonth(y, m)
  THEN <<y, m, d>>
  ELSE None

\* a < b on dates
DateLT(a, b) ==
  \/ a[1] < b[1]
  \/ a[1] = b[1] /\ a[2] < b[2]
  \/ a[1] = b[1] /\ a[2] = b[2] /\ a[3] < b[3]

DateLE(a, b) == a = b \/ DateLT(a, b)

\* d + timedelta(days=1)
NextDay(d) ==
  IF d[3] < DaysInMonth(d[1], d[2]) THEN <<d[1], d[2], d[3] + 1>>
  ELSE IF d[2] < 12 THEN <<d[1], d[2] + 1, 1>>
  ELSE <<d[1] + 1, 1, 1>>

\* d - timedelta(days=1)
PrevDay(d) ==
  IF d[3] > 1 THEN <<d[1], d[2], d[3] - 1>>
  ELSE IF d[2] > 1 THEN <<d[1], d[2] - 1, DaysInMonth(d[1], d[2] - 1)>>
  ELSE <<d[1] - 1, 12, 31>>

RECURSIVE AddDays(_, _)
\* d + timedelta(days=n), n >= 0
AddDays(d, n) == IF n = 0 THEN d ELSE AddDays(NextDay(d), n - 1)

\* min(a, b) on dates
DateMin(a, b) == IF DateLE(a, b) THEN a ELSE b

(***************************************************************************)
(* Text helpers: the str methods and regular expressions the code uses.    *)
(***************************************************************************)
Digits == {"0", "1", "2", "3", "4", "5", "6", "7", "8", "9"}

DigitVal(c) ==
  CASE c = "0" -> 0 [] c = "1" -> 1 [] c = "2" -> 2 [] c = "3" -> 3
    [] c = "4" -> 4 [] c = "5" -> 5 [] c = "6" -> 6 [] c = "7" -> 7
    [] c = "8" -> 8 [] c = "9" -> 9

DigitChar(n) ==
  CASE n = 0 -> "0" [] n = 1 -> "1" [] n = 2 -> "2" [] n = 3 -> "3"
    [] n = 4 -> "4" [] n = 5 -> "5" [] n = 6 -> "6" [] n = 7 -> "7"
    [] n = 8 -> "8" [] n = 9 -> "9"

RECURSIVE StrToInt(_)
\* int(s) for a run of digits
StrToInt(s) ==
  IF s = <<>> THEN 0
  ELSE 10 * StrToInt(SubSeq(s, 1, Len(s) - 1)) + DigitVal(s[Len(s)])

RECURSIVE NatToStr(_)
NatToStr(n) ==
  IF n < 10 THEN <<DigitChar(n)>>
  ELSE NatToStr(n \div 10) \o <<DigitChar(n % 10)>>

\* f"{n}"
IntToStr(n) == IF n < 0 THEN <<"-">> \o NatToStr(0 - n) ELSE NatToStr(n)

\* f"{n:02d}" for n >= 0
Pad2(n) == IF n < 10 THEN <<"0">> \o NatToStr(n) ELSE NatToStr(n)

RECURSIVE DigitRuns(_, _, _)
\* re.findall(r'\d+', s): the maximal runs of digits of s, left to right
DigitRuns(s, cur, acc) ==
  IF s = <<>> THEN (IF cur = <<>> THEN acc ELSE Append(acc, cur))
  ELSE IF Head(s) \in Digits THEN DigitRuns(Tail(s), Append(cur, Head(s)), acc)
  ELSE DigitRuns(Tail(s), <<>>, IF cur = <<>> THEN acc ELSE Append(acc, cur))

FindallDigits(s) == DigitRuns(s, <<>>, <<>>)

StartsWith(s, p) == Len(s) >= Len(p) /\ SubSeq(s, 1, Len(p)) = p

\* p in s
Contains(s, p) == \E i \in 1..(Len(s) - Len(p) + 1) : SubSeq(s, i, i + Len(p) - 1) = p

RECURSIVE Replace(_, _, _)
\* s.replace(old, new), old non-empty: leftmost non-overlapping occurrences
Replace(s, old, new) ==
  IF Len(s) < Len(old) THEN s
  ELSE IF StartsWith(s, old)
       THEN new \o Replace(SubSeq(s, Len(old) + 1, Len(s)), old, new)
       ELSE <<Head(s)>> \o Replace(Tail(s), old, new)

Whitespace == {" "}

RECURSIVE LStrip(_)
LStrip(s) == IF s # <<>> /\ Head(s) \in Whitespace THEN LStrip(Tail(s)) ELSE s

RECURSIVE RStrip(_)
RStrip(s) ==
  IF s # <<>> /\ s[Len(s)] \in Whitespace THEN RStrip(SubSeq(s, 1, Len(s) - 1)) ELSE s

\* s.strip()
Strip(s) == RStrip(LStrip(s))

(***************************************************************************)
(* data_processor.py: date and field normalisers                           *)
(***************************************************************************)
\* tw_str_to_date(date_str); the bare except turns IndexError and ValueError into None
tw_str_to_date(date_str) ==
  IF date_str = <<>> THEN None
  ELSE LET keys == FindallDigits(date_str) IN
       IF Len(keys) = 2
       THEN date(StrToInt(keys[1]) + EraOffset, StrToInt(keys[2]), 1)
       ELSE IF Len(keys) >= 3
            THEN date(StrToInt(keys[1]) + EraOffset, StrToInt(keys[2]), StrToInt(keys[3]))
            ELSE None

\* tw_year_format(d, slash)
tw_year_format(d, slash) ==
  LET sep == IF slash THEN <<"/">> ELSE <<>> IN
  IntToStr(d[1] - EraOffset) \o sep \o Pad2(d[2]) \o sep \o Pad2(d[3])

RECURSIVE generate_dates_stops_before_end(_, _, _)
\* generate_dates whose loop tests "cur_date < end_date"
generate_dates_stops_before_end(start_date, end_date, delta) ==
  IF DateLT(start_date, end_date)
  THEN <<start_date>> \o generate_dates_stops_before_end(AddDays(start_date, delta), end_date, delta)
  ELSE <<>>

RECURSIVE generate_dates(_, _, _)
\* generate_dates(start_date, end_date, delta) as the list of dates it yields; delta in days
generate_dates(start_date, end_date, delta) ==
  IF DateLE(start_date, end_date)
  THEN <<start_date>> \o generate_dates(AddDays(start_date, delta), end_date, delta)
  ELSE <<>>

\* clean_key(key) for a key that is not None
clean_key(key) ==
  LET k1 == Replace(key, <<"IDSP">>, <<>>)
      k2 == Replace(k1, <<"FWCOLON">>, <<>>)
      k3 == Replace(k2, <<"*", " ", "*", " ", "*">>, <<>>)
      k4 == Replace(k3, <<"FWSTAR", "FWSTAR", "FWSTAR">>, <<>>)
      k5 == Replace(k4, <<"*", "*", "*">>, <<>>)
      k6 == Replace(k5, <<"Y", "M", "D">>, <<>>)
      k7 == Replace(k6, <<"FWLP">>, <<"(">>)
      k8 == Replace(k7, <<"FWRP">>, <<")">>)
      k9 == Replace(k8, <<"zhi3", "zhi3">>, <<"di", "zhi3">>)
      k10 == Replace(k9, <<"mian", "ji1">>, <<"mian", "ji2">>)
      k11 == Strip(k10)
  IN IF k11 \in {<<"-">>, <<>>} THEN <<>> ELSE k11

\* check_license_type that tests the occupancy phrases first
check_license_type_occupancy_first(s) ==
  IF \/ (Contains(s, <<"shi", "zi">>) /\ ~Contains(s, <<"bian", "shi", "zi">>))
     \/ Contains(s, <<"shi", "yong", "zhi", "zhao">>)
     \/ Contains(s, <<"yong", "zi">>)
  THEN "occupancy"
  ELSE IF \/ Contains(s, <<"zao", "zi">>)
          \/ Contains(s, <<"jian", "zi">>)
          \/ Contains(s, <<"jian", "zao">>)
       THEN "construction"
       ELSE "other"

\* check_license_type(s)
check_license_type(s) ==
  IF \/ Contains(s, <<"zao", "zi">>)
     \/ Contains(s, <<"jian", "zi">>)
     \/ Contains(s, <<"jian", "zao">>)
  THEN "construction"
  ELSE IF \/ (Contains(s, <<"shi", "zi">>) /\ ~Contains(s, <<"bian", "shi", "zi">>))
          \/ Contains(s, <<"shi", "yong", "zhi", "zhao">>)
          \/ Contains(s, <<"yong", "zi">>)
       THEN "occupancy"
       ELSE "other"


(***************************************************************************)
(* Bounds of the model                                                     *)
(***************************************************************************)
\* transport or payload failures the environment injects in one crawl
MaxFaults == 2

\* calls made on one ExcelWriter
MaxCalls == 4

\* records one site yields in a task
MaxRecords == 2

(***************************************************************************)
(* The crawl windows and the families of get_crawler                       *)
(***************************************************************************)
Families == {"A", "B", "C", "D"}

\* <<start_date, end_date>>: two days over a year end, four days over a leap
\* day, a single day, and an end before the start
Windows ==
  { <<(<<2023, 12, 31>>), (<<2024, 1, 1>>)>>,
    <<(<<2024, 2, 27>>), (<<2024, 3, 1>>)>>,
    <<(<<2024, 1, 5>>), (<<2024, 1, 5>>)>>,
    <<(<<2024, 1, 5>>), (<<2024, 1, 4>>)>>,
    <<(<<2024, 1, 1>>), (<<2024, 1, 6>>)>> }

LicenseTypes == <<"construction", "occupancy">>

\* the label of a permit type as the sources print it
TypeLabel(t) ==
  CASE t = "construction" -> <<"jian", "zao", "zhi", "zhao">>
    [] t = "occupancy" -> <<"shi", "yong", "zhi", "zhao">>
    [] OTHER -> <<"za", "xiang", "zhi", "zhao">>

VARIABLES
  family,        \* the adapter class get_crawler built
  start_date,    \* BaseCrawler.start_date
  end_date,      \* BaseCrawler.end_date
  source,        \* the data set the remote site serves (environment)
  faults,        \* failures injected so far (environment)
  pc,            \* position of fetch_data
  unit,          \* index of the current iteration of the outer loop(s)
  start,         \* Family A: the offset loop variable
  rows,          \* the rows (or keys) of the response being iterated
  row_i,         \* how many of them the row loop has taken
  refined_data,  \* Family D: the refined record between its two detail requests
  total_count,   \* fetch_data's total_count
  requests,      \* history: every request awaited, in order, with its outcome
  logs,          \* what the on_progress callback received, in order
  yielded,       \* history: the items fetch_data yielded, in order
  yield_units,   \* history: for each item yielded, the unit that yielded it
  processed,     \* history: per unit, the rows the row loop iterated over
  workbooks,     \* ExcelWriter.workbooks: per permit type, the sheets in order
  worksheets,    \* ExcelWriter.worksheets: per permit type, the sheet names registered
  city_name,     \* ExcelWriter.city_name
  calls,         \* history: the calls made directly on an ExcelWriter, in order
  saved_files,   \* what the last save() returned
  disk,          \* the .xlsx files written: path -> the sheets of the workbook saved
  task,          \* tasks[task_id] of the API
  client,        \* BaseCrawler.client: its state, and how often one was opened and closed
  value,         \* the argument at hand when a function is applied on its own
  applied,       \* history: the functions applied on their own, with argument and result
  tasks,         \* the tasks dict of the API, when two tasks run side by side
  runs           \* per task_id, the local variables of its run_crawler_task

vars == <<family, start_date, end_date, source, faults, pc, unit, start, rows, row_i,
          refined_data, total_count, requests, logs, yielded, yield_units, processed,
          workbooks, worksheets, city_name, calls, saved_files, disk, task,
          client, value, applied, tasks, runs>>

(***************************************************************************)
(* BaseCrawler: the transport session                                      *)
(***************************************************************************)
\* BaseCrawler.__init__: "self.client = None"
NoClient == [state |-> "none", opened |-> 0, closed |-> 0]

\* __aenter__: a new httpx.AsyncClient
aenter(c) == [c EXCEPT !.state = "open", !.opened = @ + 1]

\* __aexit__ that leaves the client open
aexit_leaves_open(c) == c

\* __aexit__: "if self.client: await self.client.aclose()"
aexit(c) == IF c.state = "none" THEN c ELSE [c EXCEPT !.state = "closed", !.closed = @ + 1]

(***************************************************************************)
(* The pagination units of a crawl                                         *)
(***************************************************************************)
RECURSIVE YearUnits(_, _)
\* Family A: for year in range(start_year, end_year + 1): for license_type in [...]
YearUnits(y, end_year) ==
  IF y > end_year THEN <<>>
  ELSE <<(<<y, LicenseTypes[1]>>), (<<y, LicenseTypes[2]>>)>> \o YearUnits(y + 1, end_year)

\* days per batch of Family C
BatchDays == 3

Units ==
  CASE family = "A" -> YearUnits(start_date[1] - EraOffset, end_date[1] - EraOffset)
    [] family = "C" -> generate_dates(start_date, end_date, BatchDays)
    [] OTHER -> generate_dates(start_date, end_date, 1)

\* to_date without "- timedelta(days=1)": a batch ends on the first day of the next
to_date_overlaps(from_date) == DateMin(AddDays(from_date, BatchDays), end_date)

\* Family C: to_date of the batch starting at from_date
to_date(from_date) == DateMin(PrevDay(AddDays(from_date, BatchDays)), end_date)

(***************************************************************************)
(* Log lines, by kind                                                      *)
(***************************************************************************)
Log(kind, ref) == [kind |-> kind, ref |-> ref]

(***************************************************************************)
(* ExcelWriter                                                             *)
(***************************************************************************)
\* f"{date_obj.year}-{date_obj.month:02d}"
worksheet_name(date_obj) == IntToStr(date_obj[1]) \o <<"-">> \o Pad2(date_obj[2])

\* ExcelWriter.__init__: each openpyxl.Workbook() starts with the sheet "Sheet"
DefaultSheet == [title |-> <<"S", "h", "e", "e", "t">>, rows |-> <<>>]

InitWorkbooks == [t \in {"construction", "occupancy"} |-> <<DefaultSheet>>]

InitWorksheets == [t \in {"construction", "occupancy"} |-> {}]

SheetIndex(wb, name) == CHOOSE i \in 1..Len(wb) : wb[i].title = name

\* the permit type write_item routes a record to
data_type(data) == IF data.type = "construction" THEN "construction" ELSE "occupancy"

\* "if worksheet_name not in worksheets" with True for the test: a sheet is made anew
FirstAdd_always(w, dt, name) == TRUE

\* "if worksheet_name not in worksheets"
FirstAdd(w, dt, name) == name \notin w.worksheets[dt]

\* write_item past its guard: the sheet of the record's month in the workbook
\* of its permit type, made with a header row on first use, gets the row
AddRow(w, item) ==
    LET dt == data_type(item.data)
        name == worksheet_name(item.date)
        first_add == FirstAdd(w, dt, name)
        wb0 == w.workbooks[dt]
        wb1 == IF first_add
               THEN SelectSeq(wb0, LAMBDA sh : sh.title # name)
                      \o <<[title |-> name, rows |-> <<>>]>>
               ELSE wb0
        i == SheetIndex(wb1, name)
        hdr == IF first_add THEN <<[header |-> TRUE, data |-> item.data]>> ELSE <<>>
        wb2 == [wb1 EXCEPT ![i].rows = @ \o hdr \o <<[header |-> FALSE, data |-> item.data]>>]
    IN [workbooks |-> [w.workbooks EXCEPT ![dt] = wb2],
        worksheets |-> [w.worksheets EXCEPT ![dt] = @ \cup {name}]]

\* write_item with "if not data: return" for its guard: a record without a date
\* is filed in the first sheet of its workbook
write_item_files_undated(w, item) ==
  IF item.data = None THEN w
  ELSE IF item.date = None
       THEN [w EXCEPT !.workbooks[data_type(item.data)][1].rows =
                         Append(@, [header |-> FALSE, data |-> item.data])]
       ELSE AddRow(w, item)

\* ExcelWriter.write_item(item) on the writer state w = [workbooks, worksheets];
\* None stands for an absent value and for an empty dict alike (both are falsy)
write_item(w, item) ==
  IF item.data = None \/ item.date = None THEN w
  ELSE AddRow(w, item)

\* the sites of a batch (two of the keys of CITY_CONFIG)
Cities == <<"Keelung", "Kaohsiung">>

\* os.path.join(save_dir, f"{city_name}_{data_type}.xlsx")
save_path(name, dt) == <<name, dt>>

\* no file has been saved
NoFiles == [p \in {save_path(Cities[i], dt) : i \in 1..Len(Cities),
                                    dt \in {"construction", "occupancy"}} |-> None]

\* datetime.strptime(title, "%Y-%m"), as the pair the sort compares
strptime(title) ==
  LET dash == CHOOSE i \in 1..Len(title) : title[i] = "-"
  IN <<StrToInt(SubSeq(title, 1, dash - 1)), StrToInt(SubSeq(title, dash + 1, Len(title)))>>

\* InsertSheet with ">=" for ">": the later month goes first
InsertSheet_descending(sorted, sh) ==
  LET before(k) == strptime(sorted[k].title)[1] > strptime(sh.title)[1]
                   \/ /\ strptime(sorted[k].title)[1] = strptime(sh.title)[1]
                      /\ strptime(sorted[k].title)[2] >= strptime(sh.title)[2]
      n == Cardinality({k \in 1..Len(sorted) : before(k)})
  IN SubSeq(sorted, 1, n) \o <<sh>> \o SubSeq(sorted, n + 1, Len(sorted))

\* one step of list.sort (stable): sh goes after the sheets whose key is not greater
InsertSheet(sorted, sh) ==
  LET before(k) == strptime(sorted[k].title)[1] < strptime(sh.title)[1]
                   \/ /\ strptime(sorted[k].title)[1] = strptime(sh.title)[1]
                      /\ strptime(sorted[k].title)[2] <= strptime(sh.title)[2]
      n == Cardinality({k \in 1..Len(sorted) : before(k)})
  IN SubSeq(sorted, 1, n) \o <<sh>> \o SubSeq(sorted, n + 1, Len(sorted))

RECURSIVE SortSheets(_)
\* workbook._sheets.sort(key=lambda ws: datetime.strptime(ws.title, "%Y-%m"))
SortSheets(wb) ==
  IF wb = <<>> THEN <<>>
  ELSE InsertSheet(SortSheets(SubSeq(wb, 1, Len(wb) - 1)), wb[Len(wb)])

\* save_workbook with the removal under "> 2": a lone month keeps the placeholder
save_workbook_keeps_placeholder(wb) ==
  IF Len(wb) > 2
  THEN SortSheets(SelectSeq(wb, LAMBDA sh : sh.title # DefaultSheet.title))
  ELSE wb

\* save_workbook that removes the first sheet, whatever its title
save_workbook_removes_first(wb) ==
  IF Len(wb) > 1
  THEN SortSheets(SelectSeq(Tail(wb), LAMBDA sh : sh.title # DefaultSheet.title))
  ELSE wb

\* save(), for one workbook: with more than one sheet, "Sheet" is removed and
\* the sheets are sorted
save_workbook(wb) ==
  IF Len(wb) > 1
  THEN SortSheets(SelectSeq(wb, LAMBDA sh : sh.title # DefaultSheet.title))
  ELSE wb

\* ExcelWriter.save(): the workbooks as saved, the files written, the mapping returned
save(wbs, files, name) ==
  LET saved == [dt \in {"construction", "occupancy"} |-> save_workbook(wbs[dt])]
  IN [workbooks |-> saved,
      disk |-> [p \in DOMAIN files |->
                  IF p[1] = name THEN saved[p[2]] ELSE files[p]],
      saved_files |-> [dt \in {"construction", "occupancy"} |-> save_path(name, dt)]]

RECURSIVE total_rows(_)
\* get_stats: "total_rows += ws.max_row - 1 if ws.max_row > 1 else 0" over the
\* sheets of a workbook that are not titled "Sheet"
total_rows(wb) ==
  IF wb = <<>> THEN 0
  ELSE (IF Head(wb).title # DefaultSheet.title /\ Len(Head(wb).rows) > 1
        THEN Len(Head(wb).rows) - 1 ELSE 0) + total_rows(Tail(wb))

\* ExcelWriter.get_stats()
get_stats(wbs) == [dt \in {"construction", "occupancy"} |-> total_rows(wbs[dt])]

(***************************************************************************)
(* Family A: MCGBMCrawler                                                  *)
(***************************************************************************)
\* the window size of a page: "if len(rows) < 100"
PageSize == 100

\* range(1, 5000, 100): first offset, stop and step
FirstOffset == 1

StopOffset == 5000

OffsetStep == 100

\* generate_url_params(license_type, start, year): the query of one page
generate_url_params(license_type, s, year) ==
  [Start |-> s, license_type |-> license_type, year |-> year]

\* The data sets a Family A site may hold; the (year, permit type) unit u has
\* SourceSize rows, and row i of it is RowA.
SourcesA == {"none", "exact", "three", "mixed", "huge"}

SourceSize(src, u) ==
  CASE src = "none" -> 0
    [] src = "exact" -> 100
    [] src = "three" -> 250
    [] src = "mixed" -> 107
    [] src = "huge" -> IF u = 1 THEN 5100 ELSE 0

\* Row i of the unit u of data set src.  A row is the JSON object of the source
\* reduced to the fields fetch_data depends on: oid is _id.$oid, lic is
\* 執照類別, date is 發照日期; dict is FALSE for an element of 'data' that is
\* not a JSON object.
RowA(src, u, i) ==
  LET lt == Units[u][2]
      base == [oid |-> <<u, i>>, lic |-> TypeLabel(lt), date |-> <<>>, dict |-> TRUE]
      on(d, slash) == [base EXCEPT !.date = tw_year_format(d, slash)]
  IN CASE src = "huge" -> base
       [] src = "mixed" ->
            CASE i % 7 = 1 -> on(start_date, TRUE)
              [] i % 7 = 2 -> on(PrevDay(start_date), TRUE)
              [] i % 7 = 3 -> on(end_date, FALSE)
              [] i % 7 = 4 -> [on(end_date, TRUE) EXCEPT !.lic = TypeLabel("other")]
              [] i % 7 = 5 -> [on(start_date, TRUE) EXCEPT !.dict = FALSE]
              [] i % 7 = 6 -> on(NextDay(end_date), TRUE)
              [] OTHER -> base
       [] OTHER -> on(start_date, TRUE)

\* data.get('data', []) of the page at offset s: rows s .. s + 99 of the data set
PageRows(src, u, s) ==
  LET n == SourceSize(src, u)
      last == IF s + PageSize - 1 < n THEN s + PageSize - 1 ELSE n
  IN [i \in 1..(IF last >= s THEN last - s + 1 ELSE 0) |-> RowA(src, u, s + i - 1)]

\* refine_mcbgm(data), reduced to _id, 發照日期 and 執照類別
refine_mcbgm(data) ==
  [id |-> data.oid, date_str |-> clean_key(data.date), type |-> check_license_type(data.lic)]

\* InWindow without the upper bound of the window
InWindow_no_upper_bound(item_date) ==
  item_date # None /\ DateLE(start_date, item_date)

\* the window test of the row loop
InWindow(item_date) ==
  item_date # None /\ DateLE(start_date, item_date) /\ DateLE(item_date, end_date)

\* One iteration of "for row in rows": "yield" with the item, "error" when
\* refine_mcbgm raises (caught and logged), "drop" otherwise
RowStep(row) ==
  IF ~row.dict
  THEN [ev |-> "error", item |-> None]
  ELSE LET refined == refine_mcbgm(row)
           item_date == tw_str_to_date(refined.date_str)
       IN IF InWindow(item_date)
          THEN [ev |-> "yield",
                item |-> [date |-> item_date, index_key |-> refined.id, data |-> refined]]
          ELSE [ev |-> "drop", item |-> None]

\* the lines the row loop logs while it iterates rows[lo..hi]
RowErrors(rs, lo, hi) ==
  LET bad == SelectSeq(SubSeq(rs, lo, hi), LAMBDA row : RowStep(row).ev = "error")
  IN [k \in 1..Len(bad) |-> Log("row_error", bad[k].oid)]

\* The consumer of fetch_data writes the item it is handed (run_crawler_task, crawl_city)
Consume(item) ==
  LET w == write_item([workbooks |-> workbooks, worksheets |-> worksheets], item) IN
  /\ yielded' = Append(yielded, item)
  /\ yield_units' = Append(yield_units, unit)
  /\ workbooks' = w.workbooks
  /\ worksheets' = w.worksheets

\* The offset loop of unit `unit` is over: the next (year, permit type), or the completion line
NextUnitA(lines) ==
  IF unit < Len(Units)
  THEN /\ unit' = unit + 1
       /\ start' = FirstOffset
       /\ logs' = logs \o lines \o <<Log("unit", Units[unit + 1])>>
       /\ pc' = "page"
  ELSE /\ logs' = logs \o lines \o <<Log("done", total_count)>>
       /\ pc' = "done"
       /\ UNCHANGED <<unit, start>>

\* LastPage for an offset loop that is not a range: only a short page ends it
LastPage_without_stop(n, s) == n < PageSize

\* LastPage with "<=" for "<": a full page ends the offset loop
LastPage_full_page_stops(n, s) == n <= PageSize \/ s + OffsetStep >= StopOffset

\* the offset loop ends after this page: "if len(rows) < 100: break", or the
\* range(1, 5000, 100) is exhausted
LastPage(n, s) == n < PageSize \/ s + OffsetStep >= StopOffset

\* PageFailed with "continue" for "break": the offset loop goes on to the next page
PageFailed_next_offset(e, url) ==
  /\ logs' = Append(logs, Log(e, url))
  /\ start' = start + OffsetStep
  /\ pc' = "page"
  /\ unit' = unit

\* "except httpx.HTTPError" and "except json.JSONDecodeError" of the page: log, break
PageFailed(e, url) == NextUnitA(<<Log(e, url)>>)

\* fetch_data up to its first request
BeginA ==
  /\ family = "A" /\ pc = "start"
  /\ IF Units = <<>>
     THEN /\ logs' = Append(logs, Log("done", total_count))
          /\ pc' = "done"
          /\ unit' = unit
     ELSE /\ logs' = Append(logs, Log("unit", Units[1]))
          /\ pc' = "page"
          /\ unit' = 1
  /\ start' = FirstOffset
  /\ UNCHANGED <<family, start_date, end_date, source, faults, rows, row_i, refined_data,
                 total_count, requests, yielded, yield_units, processed, workbooks, worksheets>>
  /\ UNCHANGED <<city_name, calls, saved_files, disk, task>>
  /\ UNCHANGED <<client, value, applied, tasks, runs>>

Request(kind, arg, outcome, n) ==
  [kind |-> kind, unit |-> unit, arg |-> arg, outcome |-> outcome, n |-> n]

\* client.get(url) of one page, up to the row loop
FetchPage ==
  /\ family = "A" /\ pc = "page"
  /\ LET url == generate_url_params(Units[unit][2], start, Units[unit][1]) IN
     \/ \* the page arrives and parses
        LET rs == PageRows(source, unit, start) IN
        /\ requests' = Append(requests, Request("page", url, "ok", Len(rs)))
        /\ faults' = faults
        /\ IF Len(rs) = 0
           THEN /\ NextUnitA(<<>>)               \* "if not rows: break"
                /\ UNCHANGED <<rows, row_i>>
           ELSE /\ rows' = rs
                /\ row_i' = 0
                /\ pc' = "rows"
                /\ UNCHANGED <<unit, start, logs>>
     \/ \* httpx.HTTPError or json.JSONDecodeError: logged, break
        \E e \in {"http_error", "json_error"} :
           /\ faults < MaxFaults
           /\ faults' = faults + 1
           /\ requests' = Append(requests, Request("page", url, e, 0))
           /\ UNCHANGED <<rows, row_i>>
           /\ PageFailed(e, url)
     \/ \* the body is JSON but not an object: data.get raises AttributeError,
        \* which no except clause of fetch_data catches
        /\ faults < MaxFaults
        /\ faults' = faults + 1
        /\ requests' = Append(requests, Request("page", url, "shape", 0))
        /\ pc' = "raised"
        /\ UNCHANGED <<unit, start, logs, rows, row_i>>
  /\ UNCHANGED <<family, start_date, end_date, source, refined_data, total_count,
                 yielded, yield_units, processed, workbooks, worksheets>>
  /\ UNCHANGED <<city_name, calls, saved_files, disk, task>>
  /\ UNCHANGED <<client, value, applied, tasks, runs>>

\* The row loop of a page from its position to the next yield, or to its end
\* and on to the next request
RowsA ==
  /\ family = "A" /\ pc = "rows"
  /\ LET n == Len(rows)
         Yields(j) == RowStep(rows[j]).ev = "yield"
     IN IF \E j \in (row_i + 1)..n : Yields(j)
        THEN LET j == CHOOSE k \in (row_i + 1)..n :
                        Yields(k) /\ \A h \in (row_i + 1)..(k - 1) : ~Yields(h)
             IN /\ total_count' = total_count + 1
                /\ Consume(RowStep(rows[j]).item)
                /\ row_i' = j
                /\ processed' = [processed EXCEPT ![unit] = @ + (j - row_i)]
                /\ logs' = logs \o RowErrors(rows, row_i + 1, j - 1)
                /\ UNCHANGED <<pc, unit, start>>
        ELSE /\ row_i' = n
             /\ processed' = [processed EXCEPT ![unit] = @ + (n - row_i)]
             /\ UNCHANGED <<total_count, yielded, yield_units, workbooks, worksheets>>
             /\ IF LastPage(n, start)
                THEN NextUnitA(RowErrors(rows, row_i + 1, n))
                ELSE /\ start' = start + OffsetStep
                     /\ logs' = logs \o RowErrors(rows, row_i + 1, n)
                     /\ pc' = "page"
                     /\ unit' = unit
  /\ UNCHANGED <<family, start_date, end_date, source, faults, rows, refined_data, requests>>
  /\ UNCHANGED <<city_name, calls, saved_files, disk, task>>
  /\ UNCHANGED <<client, value, applied, tasks, runs>>

(***************************************************************************)
(* What the sites of Families B, C and D serve                             *)
(***************************************************************************)
SourcesBCD == {"none", "std"}

\* The result rows of the list query of unit u: key is the record identifier
\* (index_key, dkey), date the date of the row (identify_lice_date, licdate).
ListRows(src, u) ==
  IF src = "none" THEN <<>>
  ELSE CASE u = 1 -> << [key |-> <<"k", "1">>, date |-> tw_year_format(Units[1], TRUE)],
                        [key |-> <<>>, date |-> tw_year_format(Units[1], TRUE)],
                        [key |-> <<"k", "2">>, date |-> tw_year_format(NextDay(end_date), TRUE)] >>
         [] u = 2 -> << [key |-> <<"k", "3">>, date |-> <<>>],
                        [key |-> <<"k", "4">>, date |-> tw_year_format(PrevDay(start_date), TRUE)],
                        [key |-> <<"k", "5">>, date |-> tw_year_format(Units[2], FALSE)] >>
         [] OTHER -> <<>>

\* re.findall(r"run_button\('([^']+)'", ...) on the expanded list of unit u (Family D)
ListKeys(src, u) ==
  LET keyed == SelectSeq(ListRows(src, u), LAMBDA row : row.key # <<>>)
  IN [i \in 1..Len(keyed) |-> keyed[i].key]

\* The detail the site serves for a key, after parsing: label is the text the
\* refiner classifies (核發執照字號, title, 執照字號), date is 發照日期.
DetailOf(f, key) ==
  LET zi(t) == CASE t = "construction" -> <<"(", "1", "1", "2", ")", "jian", "zi">>
                 [] t = "occupancy" -> <<"(", "1", "1", "2", ")", "shi", "zi">>
                 [] OTHER -> <<"(", "1", "1", "2", ")", "bian", "shi", "zi">>
      title(t) == CASE t = "construction" -> TypeLabel(t) \o <<"hao", "ma">>
                    [] t = "occupancy" -> TypeLabel(t) \o <<"hao", "ma">>
                    [] OTHER -> TypeLabel("construction")
      t == CASE key = <<"k", "1">> -> "construction"
             [] key = <<"k", "4">> -> "other"
             [] OTHER -> "occupancy"
  IN [label |-> IF f = "C" THEN title(t) ELSE zi(t),
      date |-> <<"1", "1", "2", "Y", "1", "2", "M", "3", "1", "D">>]

(***************************************************************************)
(* The unit and row loops Families B, C and D share in shape               *)
(***************************************************************************)
\* The day or batch loop moves on: the next unit's log line, or the completion
\* line with the count of records yielded
NextUnit(lines, count) ==
  IF unit < Len(Units)
  THEN /\ unit' = unit + 1
       /\ logs' = logs \o lines \o <<Log("unit", Units[unit + 1])>>
       /\ pc' = "list"
  ELSE /\ logs' = logs \o lines \o <<Log("done", count)>>
       /\ pc' = "done"
       /\ unit' = unit
  
\* After a successful handshake: the first unit, or the completion line
FirstUnit ==
  IF Units = <<>>
  THEN /\ logs' = logs \o <<Log("init", family), Log("done", total_count)>>
       /\ pc' = "done"
       /\ unit' = unit
  ELSE /\ logs' = logs \o <<Log("init", family), Log("unit", Units[1])>>
       /\ pc' = "list"
       /\ unit' = 1

\* The rows each family's row loop does not skip
\* "if not index_key: continue"
WantedB(row) == row.key # <<>>

\* "if not index_key or not item_date: continue"
WantedC(row) == row.key # <<>> /\ tw_str_to_date(row.date) # None

\* every key found is looked up
WantedD(key) == TRUE

Wanted(row) ==
  CASE family = "B" -> WantedB(row)
    [] family = "C" -> WantedC(row)
    [] OTHER -> WantedD(row)

\* The row loop runs on from row i (exclusive) over the rows `rs` to the next
\* row that satisfies Wanted, where it awaits the detail request; at the end
\* of the rows the unit is over.
Advance(rs, i, lines, count) ==
  IF \E j \in (i + 1)..Len(rs) : Wanted(rs[j])
  THEN /\ row_i' = CHOOSE j \in (i + 1)..Len(rs) :
                      Wanted(rs[j]) /\ \A h \in (i + 1)..(j - 1) : ~Wanted(rs[h])
       /\ logs' = logs \o lines
       /\ pc' = "detail"
       /\ unit' = unit
  ELSE /\ row_i' = Len(rs)
       /\ NextUnit(lines, count)

\* UnitFailed with "return" for "continue": the failure of a unit ends the crawl
UnitFailed_ends_crawl(e, ref) ==
  /\ logs' = logs \o <<Log(e, ref), Log("done", total_count)>>
  /\ pc' = "done"
  /\ unit' = unit

\* UnitFailed with a retry: the failed unit is queried again
UnitFailed_retries(e, ref) ==
  /\ logs' = Append(logs, Log(e, ref))
  /\ pc' = "list"
  /\ unit' = unit

\* The except clauses of the unit's try: log the failure, continue with the next unit
UnitFailed(e, ref) == NextUnit(<<Log(e, ref)>>, total_count)

\* DetailFailed with "break" for "continue": the failure of a record ends its unit
DetailFailed_ends_unit(key) ==
  /\ row_i' = Len(rows)
  /\ NextUnit(<<Log("detail_error", key)>>, total_count)

\* The except clause of a record's try: log the identifier, continue with the next row
DetailFailed(key) ==
  Advance(rows, row_i, <<Log("detail_error", key)>>, total_count)

(***************************************************************************)
(* Family B: HsinchuCountyCrawler                                          *)
(***************************************************************************)
\* refine_hsinchu_county(data, index_key), reduced to _id, 發照日期 and 執照類別
refine_hsinchu_county(data, index_key) ==
  LET license_type == check_license_type(data.label) IN
  IF license_type \notin {"construction", "occupancy"} THEN None
  ELSE [id |-> index_key, date_str |-> clean_key(data.date), type |-> license_type]

\* 'date': item_date, without the day queried as the fallback
ItemDateB_without_fallback(item_date, cur_date) == item_date

\* 'date': item_date or cur_date
ItemDateB(item_date, cur_date) == IF item_date # None THEN item_date ELSE cur_date

\* the handshake: GET of the landing page
BeginB ==
  /\ family = "B" /\ pc = "start"
  /\ \/ /\ requests' = Append(requests, Request("init", None, "ok", 0))
        /\ faults' = faults
        /\ FirstUnit
     \/ /\ faults < MaxFaults
        /\ faults' = faults + 1
        /\ requests' = Append(requests, Request("init", None, "http_error", 0))
        /\ logs' = logs \o <<Log("init", family), Log("init_error", None)>>
        /\ pc' = "done"
        /\ unit' = unit
  /\ UNCHANGED <<family, start_date, end_date, source, start, rows, row_i, refined_data,
                 total_count, yielded, yield_units, processed, workbooks, worksheets>>
  /\ UNCHANGED <<city_name, calls, saved_files, disk, task>>
  /\ UNCHANGED <<client, value, applied, tasks, runs>>

\* the list query of one day, up to the first detail request
ListB ==
  /\ family = "B" /\ pc = "list"
  /\ LET regdat == tw_year_format(Units[unit], FALSE) IN
     \/ LET rs == ListRows(source, unit) IN
        /\ requests' = Append(requests, Request("list", regdat, "ok", Len(rs)))
        /\ faults' = faults
        /\ rows' = rs
        /\ Advance(rs, 0, <<>>, total_count)
     \/ \E e \in {"http_error", "json_error", "unit_error"} :
        /\ faults < MaxFaults
        /\ faults' = faults + 1
        /\ requests' = Append(requests, Request("list", regdat, e, 0))
        /\ UnitFailed(e, Units[unit])
        /\ UNCHANGED <<rows, row_i>>
  /\ UNCHANGED <<family, start_date, end_date, source, start, refined_data, total_count,
                 yielded, yield_units, processed, workbooks, worksheets>>
  /\ UNCHANGED <<city_name, calls, saved_files, disk, task>>
  /\ UNCHANGED <<client, value, applied, tasks, runs>>

\* the detail request of one row, its parsing and refining, up to the next request
DetailB ==
  /\ family = "B" /\ pc = "detail"
  /\ LET row == rows[row_i]
         index_key == row.key
         item_date == tw_str_to_date(row.date)
     IN
     \/ LET refined == refine_hsinchu_county(DetailOf(family, index_key), index_key) IN
        /\ requests' = Append(requests, Request("detail", index_key, "ok", 0))
        /\ faults' = faults
        /\ IF refined # None
           THEN /\ total_count' = total_count + 1
                /\ Consume([date |-> ItemDateB(item_date, Units[unit]),
                            index_key |-> index_key, data |-> refined])
           ELSE UNCHANGED <<total_count, yielded, yield_units, workbooks, worksheets>>
        /\ Advance(rows, row_i, <<>>, total_count')
     \/ \E e \in {"http_error", "parse_error"} :
        /\ faults < MaxFaults
        /\ faults' = faults + 1
        /\ requests' = Append(requests, Request("detail", index_key, e, 0))
        /\ UNCHANGED <<total_count, yielded, yield_units, workbooks, worksheets>>
        /\ DetailFailed(index_key)
  /\ UNCHANGED <<family, start_date, end_date, source, start, rows, refined_data, processed>>
  /\ UNCHANGED <<city_name, calls, saved_files, disk, task>>
  /\ UNCHANGED <<client, value, applied, tasks, runs>>

(***************************************************************************)
(* Family C: KaohsiungCrawler                                              *)
(***************************************************************************)
\* refine_kaohsiung_json(data, index_key), reduced to _id, 發照日期 and 執照類別
refine_kaohsiung_json(data, index_key) ==
  LET license_type == check_license_type(data.label) IN
  IF license_type \notin {"construction", "occupancy"} THEN None
  ELSE IF data.label \notin {TypeLabel("construction") \o <<"hao", "ma">>,
                             TypeLabel("occupancy") \o <<"hao", "ma">>}
       THEN None
       ELSE [id |-> index_key, date_str |-> clean_key(data.date), type |-> license_type]

\* the handshake: GET of the query page
BeginC ==
  /\ family = "C" /\ pc = "start"
  /\ \/ /\ requests' = Append(requests, Request("init", None, "ok", 0))
        /\ faults' = faults
        /\ FirstUnit
     \/ /\ faults < MaxFaults
        /\ faults' = faults + 1
        /\ requests' = Append(requests, Request("init", None, "http_error", 0))
        /\ logs' = logs \o <<Log("init", family), Log("init_error", None)>>
        /\ pc' = "done"
        /\ unit' = unit
  /\ UNCHANGED <<family, start_date, end_date, source, start, rows, row_i, refined_data,
                 total_count, yielded, yield_units, processed, workbooks, worksheets>>
  /\ UNCHANGED <<city_name, calls, saved_files, disk, task>>
  /\ UNCHANGED <<client, value, applied, tasks, runs>>

\* the list query of one batch [from_date, to_date], up to the first detail request
ListC ==
  /\ family = "C" /\ pc = "list"
  /\ LET from_date == Units[unit]
         range == <<tw_year_format(from_date, FALSE), tw_year_format(to_date(from_date), FALSE)>>
     IN
     \/ LET rs == ListRows(source, unit) IN
        /\ requests' = Append(requests, Request("list", range, "ok", Len(rs)))
        /\ faults' = faults
        /\ rows' = rs
        /\ Advance(rs, 0, <<>>, total_count)
     \/ \E e \in {"http_error", "unit_error"} :
        /\ faults < MaxFaults
        /\ faults' = faults + 1
        /\ requests' = Append(requests, Request("list", range, e, 0))
        /\ UnitFailed(e, None)
        /\ UNCHANGED <<rows, row_i>>
  /\ UNCHANGED <<family, start_date, end_date, source, start, refined_data, total_count,
                 yielded, yield_units, processed, workbooks, worksheets>>
  /\ UNCHANGED <<city_name, calls, saved_files, disk, task>>
  /\ UNCHANGED <<client, value, applied, tasks, runs>>

\* the detail request of one row and its refining, up to the next request
DetailC ==
  /\ family = "C" /\ pc = "detail"
  /\ LET row == rows[row_i]
         index_key == row.key
         item_date == tw_str_to_date(row.date)
     IN
     \/ LET refined == refine_kaohsiung_json(DetailOf(family, index_key), index_key) IN
        /\ requests' = Append(requests, Request("detail", index_key, "ok", 0))
        /\ faults' = faults
        /\ IF refined # None
           THEN /\ total_count' = total_count + 1
                /\ Consume([date |-> item_date, index_key |-> index_key, data |-> refined])
           ELSE UNCHANGED <<total_count, yielded, yield_units, workbooks, worksheets>>
        /\ Advance(rows, row_i, <<>>, total_count')
     \/ \E e \in {"http_error", "parse_error"} :
        /\ faults < MaxFaults
        /\ faults' = faults + 1
        /\ requests' = Append(requests, Request("detail", index_key, e, 0))
        /\ UNCHANGED <<total_count, yielded, yield_units, workbooks, worksheets>>
        /\ DetailFailed(index_key)
  /\ UNCHANGED <<family, start_date, end_date, source, start, rows, refined_data, processed>>
  /\ UNCHANGED <<city_name, calls, saved_files, disk, task>>
  /\ UNCHANGED <<client, value, applied, tasks, runs>>

(***************************************************************************)
(* Family D: NBUPICCrawler                                                 *)
(***************************************************************************)
\* the keys of a dict, a dict being the set of its <<key, value>> pairs
Keys(dict) == {kv[1] : kv \in dict}

\* dict.get(key, default)
Get(dict, key, default) ==
  IF key \in Keys(dict) THEN (CHOOSE kv \in dict : kv[1] = key)[2] ELSE default

\* 使照掛號日期, 開工日期, 竣工期限, 竣工展期至, 申報進度
ProgressFields ==
  {"occupancy_registration_date", "start_of_work_date", "completion_deadline",
   "completion_extended_to", "reported_progress"}

\* refine_nbupic(data, index_key), reduced to _id, 發照日期, 執照類別 and the
\* five progress fields, which it sets to ''
refine_nbupic(data, index_key) ==
  LET license_type == check_license_type(data.label) IN
  IF license_type \notin {"construction", "occupancy"} THEN None
  ELSE [id |-> index_key, date_str |-> data.date, type |-> license_type,
        progress |-> [f \in ProgressFields |-> <<>>]]

\* parse_additional_bs4 of the schedule.jsp page the site serves for a key:
\* all five fields, no 'div.main-header' at all, or two of the fields
ScheduleOf(key) ==
  CASE key = <<"k", "1">> ->
         { <<"occupancy_registration_date", <<"1", "1", "3", "/", "0", "2", "/", "0", "1">> >>,
           <<"start_of_work_date", <<"1", "1", "2", "/", "0", "3", "/", "0", "1">> >>,
           <<"completion_deadline", <<"1", "1", "4", "/", "0", "3", "/", "0", "1">> >>,
           <<"completion_extended_to", <<"1", "1", "4", "/", "0", "9", "/", "0", "1">> >>,
           <<"reported_progress", <<"1", "0", "0">> >> }
    [] key = <<"k", "3">> -> {}
    [] OTHER ->
         { <<"start_of_work_date", <<"1", "1", "2", "/", "0", "3", "/", "0", "1">> >>,
           <<"reported_progress", <<"5", "0">> >>,
           <<"remarks", <<"a">> >> }

\* the progress fields are left as refine_nbupic set them
merge_progress_keeps_defaults(refined, additional_data) == refined

\* "refined_data['使照掛號日期'] = additional_data.get('使照掛號日期', '')" and the
\* four assignments after it
merge_progress(refined, additional_data) ==
  [refined EXCEPT !.progress = [f \in ProgressFields |-> Get(additional_data, f, <<>>)]]

\* TokensMissing with "and" for "or": one token is enough to go on
TokensMissing_needs_both(query_id, nbupicpkey) == query_id = <<>> /\ nbupicpkey = <<>>

\* "if not query_id or not nbupicpkey"
TokensMissing(query_id, nbupicpkey) == query_id = <<>> \/ nbupicpkey = <<>>

\* The handshake: GET of the landing page and the extraction of the two tokens.
\* page says which of the tokens the landing page carries; the request records it.
BeginD ==
  /\ family = "D" /\ pc = "start"
  /\ \/ \E page \in SUBSET {"query_id", "nbupicpkey"} :
        LET query_id == IF "query_id" \in page THEN <<"q">> ELSE <<>>
            nbupicpkey == IF "nbupicpkey" \in page THEN <<"p">> ELSE <<>>
        IN IF TokensMissing(query_id, nbupicpkey)
           THEN /\ faults < MaxFaults
                /\ faults' = faults + 1
                /\ requests' = Append(requests, Request("init", page, "ok", 0))
                /\ logs' = logs \o <<Log("init", family), Log("auth_error", None)>>
                /\ pc' = "done"
                /\ unit' = unit
           ELSE /\ requests' = Append(requests, Request("init", page, "ok", 0))
                /\ faults' = faults
                /\ FirstUnit
     \/ /\ faults < MaxFaults
        /\ faults' = faults + 1
        /\ requests' = Append(requests, Request("init", {}, "http_error", 0))
        /\ logs' = logs \o <<Log("init", family), Log("init_error", None)>>
        /\ pc' = "done"
        /\ unit' = unit
  /\ UNCHANGED <<family, start_date, end_date, source, start, rows, row_i, refined_data,
                 total_count, yielded, yield_units, processed, workbooks, worksheets>>
  /\ UNCHANGED <<city_name, calls, saved_files, disk, task>>
  /\ UNCHANGED <<client, value, applied, tasks, runs>>

\* the first POST of a day's query
QueryD ==
  /\ family = "D" /\ pc = "list"
  /\ LET regdat == tw_year_format(Units[unit], TRUE) IN
     \/ /\ requests' = Append(requests, Request("list", regdat, "ok", 0))
        /\ faults' = faults
        /\ pc' = "expand"
        /\ UNCHANGED <<unit, logs>>
     \/ /\ faults < MaxFaults
        /\ faults' = faults + 1
        /\ requests' = Append(requests, Request("list", regdat, "http_error", 0))
        /\ UnitFailed("http_error", Units[unit])
  /\ UNCHANGED <<family, start_date, end_date, source, start, rows, row_i, refined_data,
                 total_count, yielded, yield_units, processed, workbooks, worksheets>>
  /\ UNCHANGED <<city_name, calls, saved_files, disk, task>>
  /\ UNCHANGED <<client, value, applied, tasks, runs>>

\* the POST that widens the result page, and the scan for the keys
ExpandD ==
  /\ family = "D" /\ pc = "expand"
  /\ LET regdat == tw_year_format(Units[unit], TRUE) IN
     \/ LET keys == ListKeys(source, unit) IN
        /\ requests' = Append(requests, Request("expand", regdat, "ok", Len(keys)))
        /\ faults' = faults
        /\ rows' = keys
        /\ Advance(keys, 0, <<>>, total_count)
     \/ /\ faults < MaxFaults
        /\ faults' = faults + 1
        /\ requests' = Append(requests, Request("expand", regdat, "http_error", 0))
        /\ UnitFailed("http_error", Units[unit])
        /\ UNCHANGED <<rows, row_i>>
  /\ UNCHANGED <<family, start_date, end_date, source, start, refined_data, total_count,
                 yielded, yield_units, processed, workbooks, worksheets>>
  /\ UNCHANGED <<city_name, calls, saved_files, disk, task>>
  /\ UNCHANGED <<client, value, applied, tasks, runs>>

\* licInfo.jsp for one key, parsed and refined
LicD ==
  /\ family = "D" /\ pc = "detail"
  /\ LET key == rows[row_i] IN
     \/ LET refined == refine_nbupic(DetailOf(family, key), key) IN
        /\ requests' = Append(requests, Request("detail", key, "ok", 0))
        /\ faults' = faults
        /\ IF refined # None
           THEN /\ refined_data' = refined
                /\ pc' = "sched"
                /\ UNCHANGED <<unit, row_i, logs>>
           ELSE /\ refined_data' = refined_data
                /\ Advance(rows, row_i, <<>>, total_count)
     \/ \E e \in {"http_error", "parse_error"} :
        /\ faults < MaxFaults
        /\ faults' = faults + 1
        /\ requests' = Append(requests, Request("detail", key, e, 0))
        /\ refined_data' = refined_data
        /\ DetailFailed(key)
  /\ UNCHANGED <<family, start_date, end_date, source, start, rows, total_count,
                 yielded, yield_units, processed, workbooks, worksheets>>
  /\ UNCHANGED <<city_name, calls, saved_files, disk, task>>
  /\ UNCHANGED <<client, value, applied, tasks, runs>>

\* schedule.jsp for the same key; the record is yielded with the day queried
SchedD ==
  /\ family = "D" /\ pc = "sched"
  /\ LET key == rows[row_i] IN
     \/ /\ requests' = Append(requests, Request("sched", key, "ok", 0))
        /\ faults' = faults
        /\ total_count' = total_count + 1
        /\ Consume([date |-> Units[unit], index_key |-> key,
                    data |-> merge_progress(refined_data, ScheduleOf(key))])
        /\ Advance(rows, row_i, <<>>, total_count')
     \/ \E e \in {"http_error", "parse_error"} :
        /\ faults < MaxFaults
        /\ faults' = faults + 1
        /\ requests' = Append(requests, Request("sched", key, e, 0))
        /\ UNCHANGED <<total_count, yielded, yield_units, workbooks, worksheets>>
        /\ DetailFailed(key)
  /\ refined_data' = None
  /\ UNCHANGED <<family, start_date, end_date, source, start, rows, processed>>
  /\ UNCHANGED <<city_name, calls, saved_files, disk, task>>
  /\ UNCHANGED <<client, value, applied, tasks, runs>>

(***************************************************************************)
(* The specification                                                       *)
(***************************************************************************)
Sources(f) == IF f = "A" THEN SourcesA ELSE SourcesBCD

\* the larger data sets are paired with the single-day window only
Config(f, w, src) ==
  /\ src \in Sources(f)
  /\ src \in {"huge", "three", "exact"} => w[1] = w[2]
  /\ w = <<(<<2024, 1, 1>>), (<<2024, 1, 6>>)>> => f = "C"

Init ==
  /\ \E f \in Families, w \in Windows :
        /\ family = f
        /\ start_date = w[1]
        /\ end_date = w[2]
        /\ \E src \in Sources(f) : Config(f, w, src) /\ source = src
  /\ faults = 0
  /\ pc = "start"
  /\ unit = 0
  /\ start = FirstOffset
  /\ rows = <<>>
  /\ row_i = 0
  /\ refined_data = None
  /\ total_count = 0
  /\ requests = <<>>
  /\ logs = <<>>
  /\ yielded = <<>>
  /\ yield_units = <<>>
  /\ processed = [u \in 1..Len(Units) |-> 0]
  /\ workbooks = InitWorkbooks
  /\ worksheets = InitWorksheets
  /\ city_name = Cities[1]
  /\ calls = <<>>
  /\ saved_files = None
  /\ disk = NoFiles
  /\ task = None
  /\ client = aenter(NoClient)
  /\ value = None
  /\ applied = <<>>
  /\ tasks = None
  /\ runs = None

Next ==
  \/ BeginA
  \/ FetchPage
  \/ RowsA
  \/ BeginB
  \/ ListB
  \/ DetailB
  \/ BeginC
  \/ ListC
  \/ DetailC
  \/ BeginD
  \/ QueryD
  \/ ExpandD
  \/ LicD
  \/ SchedD

Spec == Init /\ [][Next]_vars

\* fetch_data has returned or raised
Ended == pc \in {"done", "raised"}

\* A crawl in which every request returns a response or an error, so that the
\* coroutine is resumed whenever it awaits: WF_vars(Next), written out as
\* []<>~ENABLED <<Next>>_vars \/ []<><<Next>>_vars.  A step of Next is enabled
\* exactly while fetch_data has not ended.
LiveSpec == Spec /\ ([]<>Ended \/ []<><<Next>>_vars)

(***************************************************************************)
(* An ExcelWriter driven directly: any write_item and save calls           *)
(***************************************************************************)
\* the dates of the records written: three months, not in calendar order
WriterDates == {<<2024, 3, 15>>, <<2023, 12, 1>>, <<2024, 1, 31>>}

\* The items the n-th call may pass: a record of any permit type with a date,
\* a record without a date, and a date without data
WriterItems(n) ==
  LET rec(t) == [id |-> <<n>>, date_str |-> <<>>, type |-> t]
  IN {[date |-> d, index_key |-> <<n>>, data |-> rec(t)] :
         d \in WriterDates, t \in {"construction", "occupancy", "other"}}
     \cup {[date |-> None, index_key |-> <<n>>, data |-> rec("construction")],
           [date |-> <<2024, 3, 15>>, index_key |-> <<n>>, data |-> None]}

\* ExcelWriter(city, save_dir), and a crawler that is not iterated
WriterInit ==
  /\ family = "A"
  /\ start_date = <<2024, 1, 5>>
  /\ end_date = <<2024, 1, 5>>
  /\ source = "none"
  /\ faults = 0
  /\ pc = "start"
  /\ unit = 0
  /\ start = FirstOffset
  /\ rows = <<>>
  /\ row_i = 0
  /\ refined_data = None
  /\ total_count = 0
  /\ requests = <<>>
  /\ logs = <<>>
  /\ yielded = <<>>
  /\ yield_units = <<>>
  /\ processed = [u \in 1..Len(Units) |-> 0]
  /\ workbooks = InitWorkbooks
  /\ worksheets = InitWorksheets
  /\ city_name = Cities[1]
  /\ calls = <<>>
  /\ saved_files = None
  /\ disk = NoFiles
  /\ task = None
  /\ client = NoClient
  /\ value = None
  /\ applied = <<>>
  /\ tasks = None
  /\ runs = None

\* excel_writer.write_item(item)
WriteItem ==
  /\ Len(calls) < MaxCalls
  /\ \E item \in WriterItems(Len(calls) + 1) :
       LET w == write_item([workbooks |-> workbooks, worksheets |-> worksheets], item) IN
       /\ workbooks' = w.workbooks
       /\ worksheets' = w.worksheets
       /\ calls' = Append(calls, [op |-> "write_item", item |-> item])
  /\ UNCHANGED <<family, start_date, end_date, source, faults, pc, unit, start, rows, row_i,
                 refined_data, total_count, requests, logs, yielded, yield_units, processed,
                 city_name, saved_files, disk, task>>
  /\ UNCHANGED <<client, value, applied, tasks, runs>>

\* excel_writer.save()
Save ==
  /\ Len(calls) < MaxCalls
  /\ LET r == save(workbooks, disk, city_name) IN
     /\ workbooks' = r.workbooks
     /\ disk' = r.disk
     /\ saved_files' = r.saved_files
  /\ calls' = Append(calls, [op |-> "save", item |-> None])
  /\ UNCHANGED <<family, start_date, end_date, source, faults, pc, unit, start, rows, row_i,
                 refined_data, total_count, requests, logs, yielded, yield_units, processed,
                 worksheets, city_name, task>>
  /\ UNCHANGED <<client, value, applied, tasks, runs>>

WriterNext == WriteItem \/ Save

WriterSpec == WriterInit /\ [][WriterNext]_vars

(***************************************************************************)
(* run_crawler_task: a batch of sites, each crawled into its own writer.   *)
(* The crawl of a site is what its consumer sees of fetch_data: items, and *)
(* then its end or an exception; unit is the index of the site in the     *)
(* batch, pc the position of the site's fetch_data.                        *)
(***************************************************************************)
\* the 'cities' of a request
TaskCities == {<<Cities[1]>>, <<Cities[1], Cities[2]>>, <<Cities[2], Cities[1]>>}

\* the items a site may yield, as the k-th item of the task
TaskItems(k) ==
  {[date |-> <<2024, 3, 15>>, index_key |-> <<k>>,
    data |-> [id |-> <<k>>, date_str |-> <<>>, type |-> "construction"]],
   [date |-> <<2023, 12, 1>>, index_key |-> <<k>>,
    data |-> [id |-> <<k>>, date_str |-> <<>>, type |-> "occupancy"]]}

\* "if len(task['logs']) > 100: task['logs'] = task['logs'][-100:]"
LogCap == 100

\* log_callback(msg) on the log list ls
log_callback(ls, msg) ==
  LET appended == Append(ls, msg) IN
  IF Len(appended) > LogCap
  THEN SubSeq(appended, Len(appended) - LogCap + 1, Len(appended))
  ELSE appended

RECURSIVE LogAll(_, _)
\* log_callback called for each of the lines in turn
LogAll(ls, lines) ==
  IF lines = <<>> THEN ls ELSE LogAll(log_callback(ls, Head(lines)), Tail(lines))

LogBurst == 34       \* lines a crawl logs between two items
MaxLogLines == 102   \* lines the crawls of a task log

\* the lines the crawls have logged so far; in a task, logs is the history of
\* every line the task was given, task.logs the list it keeps
CrawlLines == SelectSeq(logs, LAMBDA l : l.kind = "crawl")

\* the end of run_crawler_task's try block without the assignment of completed_cities
Finished_without_count(t) == [t EXCEPT !.status = "completed"]

\* "task['progress']['completed_cities'] = len(task['cities'])" and COMPLETED
Finished(t) ==
  [t EXCEPT !.progress.completed_cities = Len(t.cities), !.status = "completed"]

\* start_crawl: the task as it is queued
TaskInit ==
  /\ family = "A"
  /\ start_date = <<2024, 1, 5>>
  /\ end_date = <<2024, 1, 5>>
  /\ source = "none"
  /\ faults = 0
  /\ pc = "start"
  /\ unit = 0
  /\ start = FirstOffset
  /\ rows = <<>>
  /\ row_i = 0
  /\ refined_data = None
  /\ total_count = 0
  /\ requests = <<>>
  /\ logs = <<>>
  /\ yielded = <<>>
  /\ yield_units = <<>>
  /\ processed = [u \in 1..Len(Units) |-> 0]
  /\ workbooks = InitWorkbooks
  /\ worksheets = InitWorksheets
  /\ city_name = Cities[1]
  /\ calls = <<>>
  /\ saved_files = None
  /\ disk = NoFiles
  /\ client = NoClient
  /\ value = None
  /\ applied = <<>>
  /\ tasks = None
  /\ runs = None
  /\ \E cs \in TaskCities :
       task = [status |-> "queued", cities |-> cs,
               progress |-> [current_city |-> None, total_cities |-> Len(cs),
                             completed_cities |-> 0, total_records |-> 0],
               logs |-> <<>>, files |-> <<>>, error |-> None]

\* The head of the city loop for the i-th city: progress, get_crawler, a new
\* ExcelWriter, and "async with crawler" opening the crawler's client
StartCity(t, i, c) ==
  /\ task' = [t EXCEPT !.progress.current_city = t.cities[i],
                       !.progress.completed_cities = i - 1]
  /\ unit' = i
  /\ city_name' = t.cities[i]
  /\ workbooks' = InitWorkbooks
  /\ worksheets' = InitWorksheets
  /\ client' = aenter(c)
  /\ pc' = "start"

\* run_crawler_task from its start to the first await of the first crawl
TaskBegin ==
  /\ unit = 0
  /\ StartCity([task EXCEPT !.status = "running",
                            !.progress.total_cities = Len(task.cities)], 1, client)
  /\ UNCHANGED <<family, start_date, end_date, source, faults, start, rows, row_i,
                 refined_data, total_count, requests, logs, yielded, yield_units, processed,
                 calls, saved_files, disk>>
  /\ UNCHANGED <<value, applied, tasks, runs>>

\* "async for item in crawler.fetch_data(...)": one item, written and counted
TaskItem ==
  /\ unit >= 1 /\ pc = "start"
  /\ Len(SelectSeq(yield_units, LAMBDA u : u = unit)) < MaxRecords
  /\ \E item \in TaskItems(Len(yielded) + 1) : Consume(item)
  /\ task' = [task EXCEPT !.progress.total_records = @ + 1]
  /\ UNCHANGED <<family, start_date, end_date, source, faults, pc, unit, start, rows, row_i,
                 refined_data, total_count, requests, logs, processed,
                 city_name, calls, saved_files, disk, client>>
  /\ UNCHANGED <<value, applied, tasks, runs>>

\* fetch_data reports progress: a burst of calls of on_progress=log_callback
CrawlLogs ==
  /\ unit >= 1 /\ pc = "start"
  /\ Len(CrawlLines) + LogBurst <= MaxLogLines
  /\ LET lines == [i \in 1..LogBurst |-> Log("crawl", Len(logs) + i)] IN
     /\ task' = [task EXCEPT !.logs = LogAll(@, lines)]
     /\ logs' = logs \o lines
  /\ UNCHANGED <<family, start_date, end_date, source, faults, pc, unit, start, rows, row_i,
                 refined_data, total_count, requests, yielded, yield_units, processed,
                 workbooks, worksheets, city_name, calls, saved_files, disk, client>>
  /\ UNCHANGED <<value, applied, tasks, runs>>

\* "excel_writer.write_item(item)" raises on the item it is handed
WriterRaises ==
  /\ unit >= 1 /\ pc = "start"
  /\ Len(SelectSeq(yield_units, LAMBDA u : u = unit)) < MaxRecords
  /\ \E item \in TaskItems(Len(yielded) + 1) :
       /\ yielded' = Append(yielded, item)
       /\ yield_units' = Append(yield_units, unit)
  /\ pc' = "raised"
  /\ UNCHANGED <<family, start_date, end_date, source, faults, unit, start, rows, row_i,
                 refined_data, total_count, requests, logs, processed,
                 workbooks, worksheets, city_name, calls, saved_files, disk, task, client>>
  /\ UNCHANGED <<value, applied, tasks, runs>>

\* fetch_data returns; the crawler's client is being closed
CrawlReturns ==
  /\ unit >= 1 /\ pc = "start"
  /\ pc' = "done"
  /\ UNCHANGED <<family, start_date, end_date, source, faults, unit, start, rows, row_i,
                 refined_data, total_count, requests, logs, yielded, yield_units, processed,
                 workbooks, worksheets, city_name, calls, saved_files, disk, task, client>>
  /\ UNCHANGED <<value, applied, tasks, runs>>

\* fetch_data raises; the crawler's client is being closed
CrawlRaises ==
  /\ unit >= 1 /\ pc = "start"
  /\ pc' = "raised"
  /\ UNCHANGED <<family, start_date, end_date, source, faults, unit, start, rows, row_i,
                 refined_data, total_count, requests, logs, yielded, yield_units, processed,
                 workbooks, worksheets, city_name, calls, saved_files, disk, task, client>>
  /\ UNCHANGED <<value, applied, tasks, runs>>

\* After the crawl of a city: the client is closed, then save(),
\* task['files'][city], the log line, and the next city or the end of the task
SaveCity ==
  /\ pc = "done" /\ task.progress.completed_cities < Len(task.cities)
  /\ LET r == save(workbooks, disk, city_name)
         city == task.cities[unit]
         t == [task EXCEPT
                 !.files = [c \in DOMAIN task.files \cup {city} |->
                              IF c = city THEN r.saved_files ELSE task.files[c]],
                 !.logs = log_callback(@, Log("city_done", city))]
     IN /\ disk' = r.disk
        /\ saved_files' = r.saved_files
        /\ logs' = Append(logs, Log("city_done", city))
        /\ IF unit < Len(task.cities)
           THEN StartCity(t, unit + 1, aexit(client))
           ELSE /\ task' = Finished(t)
                /\ workbooks' = r.workbooks
                /\ client' = aexit(client)
                /\ UNCHANGED <<pc, unit, city_name, worksheets>>
  /\ UNCHANGED <<family, start_date, end_date, source, faults, start, rows, row_i,
                 refined_data, total_count, requests, yielded, yield_units, processed,
                 calls>>
  /\ UNCHANGED <<value, applied, tasks, runs>>

\* The client is closed, then "except Exception as e" of run_crawler_task
TaskFails ==
  /\ pc = "raised" /\ task.error = None
  /\ task' = [task EXCEPT !.status = "failed",
                          !.error = <<task.cities[unit]>>,
                          !.logs = Append(@, Log("error", task.cities[unit]))]
  /\ logs' = Append(logs, Log("error", task.cities[unit]))
  /\ client' = aexit(client)
  /\ UNCHANGED <<family, start_date, end_date, source, faults, pc, unit, start, rows, row_i,
                 refined_data, total_count, requests, yielded, yield_units, processed,
                 workbooks, worksheets, city_name, calls, saved_files, disk>>
  /\ UNCHANGED <<value, applied, tasks, runs>>

\* cancel_task: a queued or running task is marked cancelled
CancelTask ==
  /\ task.status \in {"queued", "running"}
  /\ task' = [task EXCEPT !.status = "cancelled"]
  /\ UNCHANGED <<family, start_date, end_date, source, faults, pc, unit, start, rows, row_i,
                 refined_data, total_count, requests, logs, yielded, yield_units, processed,
                 workbooks, worksheets, city_name, calls, saved_files, disk, client>>
  /\ UNCHANGED <<value, applied, tasks, runs>>

TaskNext ==
  \/ TaskBegin
  \/ TaskItem
  \/ CrawlLogs
  \/ WriterRaises
  \/ CrawlReturns
  \/ CrawlRaises
  \/ SaveCity
  \/ TaskFails
  \/ CancelTask

TaskSpec == TaskInit /\ [][TaskNext]_vars

(***************************************************************************)
(* Two tasks side by side: start_crawl has put two tasks into the tasks    *)
(* dict and scheduled run_crawler_task for each; the event loop switches   *)
(* between the two coroutines at their awaits.  runs[task_id] holds the    *)
(* local variables of one execution: its position, the index of its city,  *)
(* its crawler's client and its ExcelWriter.                               *)
(***************************************************************************)
\* the keys of the tasks dict
TaskIds == {1, 2}

\* the 'cities' of the two requests
PoolCities == {<<Cities[1]>>, <<Cities[1], Cities[2]>>}

\* the window of the request behind a task: the two requests ask for different months
PoolWindow(task_id) == <<2024, task_id, 5>>

\* records a site yields to one crawl
MaxPoolRecords == 1

\* every task writes into OUTPUT_DIR itself
task_output_dir_shared(task_id) == 0

\* "task_output_dir = os.path.join(OUTPUT_DIR, task_id)"
task_output_dir(task_id) == task_id

\* "file_path = os.path.join(self.save_dir, f'{self.city_name}_{data_type}.xlsx')"
save_path_in(save_dir, name, dt) == <<save_dir, name, dt>>

\* no file has been saved in OUTPUT_DIR (0) or in the directory of a task
PoolNoFiles ==
  [p \in {save_path_in(dir, Cities[i], dt) :
            dir \in {0} \cup TaskIds, i \in 1..Len(Cities),
            dt \in {"construction", "occupancy"}} |-> None]

\* ExcelWriter.save() of a writer made with save_dir
save_in(wbs, files, save_dir, name) ==
  LET saved == [dt \in {"construction", "occupancy"} |-> save_workbook(wbs[dt])]
  IN [workbooks |-> saved,
      disk |-> [p \in DOMAIN files |->
                  IF p[1] = save_dir /\ p[2] = name THEN saved[p[3]] ELSE files[p]],
      saved_files |-> [dt \in {"construction", "occupancy"} |->
                         save_path_in(save_dir, name, dt)]]

\* the item a crawl of the task yields: a permit issued inside the task's window
PoolItems(task_id, k) ==
  {[date |-> PoolWindow(task_id), index_key |-> <<k>>,
    data |-> [id |-> <<k>>, date_str |-> <<>>, type |-> ty]] :
     ty \in {"construction", "occupancy"}}

\* a coroutine that has not run yet
NoRun == [pc |-> "queued", i |-> 0, n |-> 0, client |-> NoClient,
          city_name |-> None, save_dir |-> None,
          workbooks |-> InitWorkbooks, worksheets |-> InitWorksheets,
          steps |-> 0, concurrent |-> FALSE]

\* start_crawl, twice: two tasks are queued
PoolInit ==
  /\ family = "A"
  /\ start_date = <<2024, 1, 5>>
  /\ end_date = <<2024, 1, 5>>
  /\ source = "none"
  /\ faults = 0
  /\ pc = "start"
  /\ unit = 0
  /\ start = FirstOffset
  /\ rows = <<>>
  /\ row_i = 0
  /\ refined_data = None
  /\ total_count = 0
  /\ requests = <<>>
  /\ logs = <<>>
  /\ yielded = <<>>
  /\ yield_units = <<>>
  /\ processed = [u \in 1..Len(Units) |-> 0]
  /\ workbooks = InitWorkbooks
  /\ worksheets = InitWorksheets
  /\ city_name = Cities[1]
  /\ calls = <<>>
  /\ saved_files = None
  /\ disk = PoolNoFiles
  /\ task = None
  /\ client = NoClient
  /\ value = None
  /\ applied = <<>>
  /\ \E cs \in [TaskIds -> PoolCities] :
       tasks = [id \in TaskIds |->
                  [status |-> "queued", cities |-> cs[id],
                   start_date |-> PoolWindow(id), end_date |-> PoolWindow(id),
                   progress |-> [current_city |-> None, total_cities |-> Len(cs[id]),
                                 completed_cities |-> 0, total_records |-> 0],
                   logs |-> <<>>, files |-> <<>>, error |-> None]]
  /\ runs = [id \in TaskIds |-> NoRun]

\* what a step of the pool leaves alone
PoolUnchanged ==
  UNCHANGED <<family, start_date, end_date, source, faults, pc, unit, start, rows, row_i,
              refined_data, total_count, requests, logs, yielded, yield_units, processed,
              workbooks, worksheets, city_name, calls, saved_files, task,
              client, value, applied>>

\* The head of the city loop of the run of task_id, for its i-th city: t is the
\* task and r the locals before it (current_city is None or <<the name>>)
RunStartCity(task_id, t, r, i) ==
  /\ tasks' = [tasks EXCEPT ![task_id] =
                 [t EXCEPT !.progress.current_city = <<t.cities[i]>>,
                           !.progress.completed_cities = i - 1]]
  /\ runs' = [runs EXCEPT ![task_id] =
                [r EXCEPT !.pc = "crawl", !.i = i, !.n = 0,
                          !.city_name = t.cities[i],
                          !.save_dir = task_output_dir(task_id),
                          !.workbooks = InitWorkbooks,
                          !.worksheets = InitWorksheets,
                          !.client = aenter(r.client),
                          !.steps = @ + 1]]

\* run_crawler_task(task_id) from its start to the first await of its first crawl
RunBegin(task_id) ==
  /\ runs[task_id].pc = "queued"
  /\ RunStartCity(task_id,
                  [tasks[task_id] EXCEPT !.status = "running",
                                         !.progress.total_cities = Len(tasks[task_id].cities)],
                  [runs[task_id] EXCEPT !.concurrent =
                     \E o \in TaskIds \ {task_id} : runs[o].pc \in {"crawl", "done", "raised"}],
                  1)
  /\ UNCHANGED disk
  /\ PoolUnchanged

\* the crawl of task_id reports progress and yields an item, which is written
\* and counted
RunItem(task_id) ==
  /\ runs[task_id].pc = "crawl"
  /\ runs[task_id].n < MaxPoolRecords
  /\ \E item \in PoolItems(task_id, tasks[task_id].progress.total_records + 1) :
       LET r == runs[task_id]
           w == write_item([workbooks |-> r.workbooks, worksheets |-> r.worksheets], item)
       IN /\ runs' = [runs EXCEPT ![task_id] =
                        [r EXCEPT !.workbooks = w.workbooks, !.worksheets = w.worksheets,
                                  !.n = @ + 1, !.steps = @ + 1]]
          /\ tasks' = [tasks EXCEPT ![task_id].progress.total_records = @ + 1,
                                    ![task_id].logs = log_callback(@, Log("crawl", r.city_name))]
  /\ UNCHANGED disk
  /\ PoolUnchanged

\* the crawl of task_id returns
RunReturns(task_id) ==
  /\ runs[task_id].pc = "crawl"
  /\ runs' = [runs EXCEPT ![task_id].pc = "done", ![task_id].steps = @ + 1]
  /\ UNCHANGED <<tasks, disk>>
  /\ PoolUnchanged

\* the crawl of task_id raises
RunRaises(task_id) ==
  /\ runs[task_id].pc = "crawl"
  /\ runs' = [runs EXCEPT ![task_id].pc = "raised", ![task_id].steps = @ + 1]
  /\ UNCHANGED <<tasks, disk>>
  /\ PoolUnchanged

\* after a crawl of task_id: the client is closed, then save(),
\* task['files'][city], the log line, and the next city or the end of the task
RunSave(task_id) ==
  /\ runs[task_id].pc = "done"
  /\ LET r0 == runs[task_id]
         s == save_in(r0.workbooks, disk, r0.save_dir, r0.city_name)
         city == tasks[task_id].cities[r0.i]
         t == [tasks[task_id] EXCEPT
                 !.files = [c \in DOMAIN tasks[task_id].files \cup {city} |->
                              IF c = city THEN s.saved_files ELSE tasks[task_id].files[c]],
                 !.logs = log_callback(@, Log("city_done", city))]
         r == [r0 EXCEPT !.client = aexit(@), !.workbooks = s.workbooks]
     IN /\ disk' = s.disk
        /\ IF r0.i < Len(t.cities)
           THEN RunStartCity(task_id, t, r, r0.i + 1)
           ELSE /\ tasks' = [tasks EXCEPT ![task_id] = Finished(t)]
                /\ runs' = [runs EXCEPT ![task_id] =
                              [r EXCEPT !.pc = "end", !.steps = @ + 1]]
  /\ PoolUnchanged

\* the client is closed, then "except Exception as e" of the run of task_id
RunFails(task_id) ==
  /\ runs[task_id].pc = "raised"
  /\ LET city == tasks[task_id].cities[runs[task_id].i] IN
     tasks' = [tasks EXCEPT ![task_id].status = "failed",
                            ![task_id].error = <<city>>,
                            ![task_id].logs = Append(@, Log("error", city))]
  /\ runs' = [runs EXCEPT ![task_id].pc = "end",
                          ![task_id].client = aexit(@),
                          ![task_id].steps = @ + 1]
  /\ UNCHANGED disk
  /\ PoolUnchanged

PoolNext ==
  \/ \E task_id \in TaskIds : RunBegin(task_id)
  \/ \E task_id \in TaskIds : RunItem(task_id)
  \/ \E task_id \in TaskIds : RunReturns(task_id)
  \/ \E task_id \in TaskIds : RunRaises(task_id)
  \/ \E task_id \in TaskIds : RunSave(task_id)
  \/ \E task_id \in TaskIds : RunFails(task_id)

PoolSpec == PoolInit /\ [][PoolNext]_vars


(***************************************************************************)
(* crawlers/__init__.py: the site table.  City names are spelled in Latin  *)
(* letters; a configuration is the dict of the source, a crawler the class *)
(* with the keyword arguments it was built with.                           *)
(***************************************************************************)
CITY_CONFIG ==
  ("Keelung" :> [crawler_class |-> "MCGBMCrawler", base_url |-> "master.klcg.gov.tw",
                 system |-> "MCGBM"]) @@
  ("NewTaipei" :> [crawler_class |-> "MCGBMCrawler",
                   base_url |-> "building-apply.publicwork.ntpc.gov.tw",
                   system |-> "MCGBM"]) @@
  ("Taoyuan" :> [crawler_class |-> "MCGBMCrawler", base_url |-> "building.tycg.gov.tw",
                 system |-> "MCGBM"]) @@
  ("HsinchuCity" :> [crawler_class |-> "MCGBMCrawler", base_url |-> "build.hccg.gov.tw",
                     system |-> "MCGBM"]) @@
  ("Taichung" :> [crawler_class |-> "MCGBMCrawler", base_url |-> "mcgbm.taichung.gov.tw",
                  system |-> "MCGBM"]) @@
  ("HsinchuSciencePark" :> [crawler_class |-> "NBUPICCrawler", organ |-> "B10",
                            system |-> "NBUPIC"]) @@
  ("CentralSciencePark" :> [crawler_class |-> "NBUPICCrawler", organ |-> "B20",
                            system |-> "NBUPIC"]) @@
  ("SouthernSciencePark" :> [crawler_class |-> "NBUPICCrawler", organ |-> "B30",
                             system |-> "NBUPIC"]) @@
  ("Tainan" :> [crawler_class |-> "NBUPICCrawler", organ |-> "IF0", system |-> "NBUPIC"]) @@
  ("HsinchuCounty" :> [crawler_class |-> "HsinchuCountyCrawler",
                       system |-> "HsinchuCounty"]) @@
  ("Kaohsiung" :> [crawler_class |-> "KaohsiungCrawler", system |-> "Kaohsiung"])

\* get_supported_cities(): list(CITY_CONFIG.keys()), in the order of the dict
get_supported_cities ==
  <<"Keelung", "NewTaipei", "Taoyuan", "HsinchuCity", "Taichung", "HsinchuSciencePark",
    "CentralSciencePark", "SouthernSciencePark", "Tainan", "HsinchuCounty", "Kaohsiung">>

\* crawler_class(city_name=..., start_date=..., end_date=..., **kw): no request is made
Crawler(class, name, s, e, kw) ==
  [class |-> class, city_name |-> name, start_date |-> s, end_date |-> e, kw |-> kw,
   client |-> NoClient]

\* get_crawler that builds the last family's crawler for a name it does not know
get_crawler_unknown_name_gets_default(name, s, e) ==
  IF name \notin DOMAIN CITY_CONFIG
  THEN [ok |-> TRUE, crawler |-> Crawler("KaohsiungCrawler", name, s, e, {})]
  ELSE LET config == CITY_CONFIG[name] IN
       [ok |-> TRUE,
        crawler |-> IF config.system = "MCGBM"
                    THEN Crawler(config.crawler_class, name, s, e,
                                 {<<"base_url", config.base_url>>})
                    ELSE IF config.system = "NBUPIC"
                         THEN Crawler(config.crawler_class, name, s, e,
                                      {<<"organ", config.organ>>})
                         ELSE Crawler(config.crawler_class, name, s, e, {})]

\* get_crawler(city_name, start_date, end_date): the crawler, or the error raised
get_crawler(name, s, e) ==
  IF name \notin DOMAIN CITY_CONFIG
  THEN [ok |-> FALSE, raised |-> "ValueError"]
  ELSE LET config == CITY_CONFIG[name] IN
       [ok |-> TRUE,
        crawler |-> IF config.system = "MCGBM"
                    THEN Crawler(config.crawler_class, name, s, e,
                                 {<<"base_url", config.base_url>>})
                    ELSE IF config.system = "NBUPIC"
                         THEN Crawler(config.crawler_class, name, s, e,
                                      {<<"organ", config.organ>>})
                         ELSE Crawler(config.crawler_class, name, s, e, {})]

(***************************************************************************)
(* data_processor.py: the keys of the record each refiner returns (its     *)
(* dict literal), spelled in English                                       *)
(***************************************************************************)
refine_mcbgm_keys ==
  {"_id", "issue_date", "license_type", "occupancy_registration_date",
   "start_of_work_date", "completion_date", "completion_deadline",
   "completion_extended_to", "reported_progress", "license_number",
   "original_license_number", "design_changes", "site_area", "building_area",
   "total_floor_area", "coverage_ratio", "floor_area_ratio",
   "building_height", "shelter_area", "open_space_area", "construction_kind",
   "structure_kind", "buildings", "blocks", "floors_above", "floors_below",
   "households", "applicant", "designer", "designer_office", "supervisor",
   "supervisor_office", "contractor", "contractor_firm", "zoning",
   "building_use", "construction_cost", "floor_summary", "land_numbers",
   "addresses", "remarks"}

refine_kaohsiung_json_keys ==
  {"_id", "issue_date", "license_type", "occupancy_registration_date",
   "start_of_work_date", "completion_date", "completion_extended_to",
   "reported_progress", "license_number", "original_license_number",
   "design_changes", "site_area", "building_area", "total_floor_area",
   "coverage_ratio", "floor_area_ratio", "building_height", "shelter_area",
   "open_space_area", "construction_kind", "structure_kind", "buildings",
   "blocks", "floors_above", "floors_below", "households", "applicant",
   "designer", "designer_office", "supervisor", "supervisor_office",
   "contractor", "contractor_firm", "zoning", "building_use",
   "construction_cost", "floor_summary", "land_numbers", "addresses",
   "remarks"}

refine_nbupic_keys ==
  {"_id", "issue_date", "license_type", "occupancy_registration_date",
   "start_of_work_date", "completion_date", "completion_deadline",
   "completion_extended_to", "reported_progress", "license_number",
   "original_license_number", "design_changes", "site_area", "building_area",
   "total_floor_area", "coverage_ratio", "floor_area_ratio",
   "building_height", "shelter_area", "open_space_area", "construction_kind",
   "structure_kind", "buildings", "blocks", "floors_above", "floors_below",
   "households", "applicant", "designer", "designer_office", "supervisor",
   "supervisor_office", "contractor", "contractor_firm", "zoning",
   "building_use", "construction_cost", "floor_summary", "land_numbers",
   "addresses", "remarks"}

refine_hsinchu_county_keys ==
  {"_id", "issue_date", "license_type", "occupancy_registration_date",
   "start_of_work_date", "completion_date", "completion_deadline",
   "completion_extended_to", "reported_progress", "license_number",
   "original_license_number", "design_changes", "site_area", "building_area",
   "total_floor_area", "coverage_ratio", "floor_area_ratio",
   "building_height", "shelter_area", "open_space_area", "construction_kind",
   "structure_kind", "buildings", "blocks", "floors_above", "floors_below",
   "households", "applicant", "designer", "designer_office", "supervisor",
   "supervisor_office", "contractor", "contractor_firm", "zoning",
   "building_use", "construction_cost", "floor_summary", "land_numbers",
   "addresses", "remarks"}

Refiners == {"refine_mcbgm", "refine_kaohsiung_json", "refine_nbupic", "refine_hsinchu_county"}

\* the keys of the record the refiner returns for a row it does not reject
RefinedKeys(refiner) ==
  CASE refiner = "refine_mcbgm" -> refine_mcbgm_keys
    [] refiner = "refine_kaohsiung_json" -> refine_kaohsiung_json_keys
    [] refiner = "refine_nbupic" -> refine_nbupic_keys
    [] refiner = "refine_hsinchu_county" -> refine_hsinchu_county_keys

(***************************************************************************)
(* data_processor.py: the tables of a Hsinchu County detail page.  A dict  *)
(* is the set of its <<key, value>> pairs.  A table is given by where its  *)
(* title is found ("prev": its previous sibling, "parent": the previous    *)
(* sibling of its parent, "none": nowhere), the cleaned title, and the     *)
(* row_data of its rows after the header row.                              *)
(***************************************************************************)
\* min(a, b) on numbers
Min(a, b) == IF a <= b THEN a ELSE b

\* {**a, **b}
DictMerge(a, b) == b \cup {kv \in a : kv[1] \notin Keys(b)}

\* row_data.pop('序號', None)
PopSerial(row_data) == {kv \in row_data : kv[1] # "serial"}

\* the rows of a table: "row_data.pop('序號', None); if row_data: rows.append(row_data)"
TableRows(table) ==
  LET popped == [i \in 1..Len(table.rows) |-> PopSerial(table.rows[i])]
  IN SelectSeq(popped, LAMBDA row_data : row_data # {})

\* zip(rows, stored) merged as {**a, **b}
ZipMerge(rs, stored) ==
  [i \in 1..Min(Len(rs), Len(stored)) |-> DictMerge(rs[i], stored[i])]

\* table_data[key] = rs
Store(table_data, key, rs) ==
  {kv \in table_data : kv[1] # key} \cup {<<key, rs>>}

\* table_data[key], for a key in table_data
Stored(table_data, key) == (CHOOSE kv \in table_data : kv[1] = key)[2]

\* one pass of "for table in tables"
TableStep(table_data, table) ==
  LET rs == TableRows(table) IN
  IF table.title = "prev" THEN Store(table_data, table.key, rs)
  ELSE IF table.title = "parent"
       THEN IF table.key \in Keys(table_data)
            THEN Store(table_data, table.key, ZipMerge(rs, Stored(table_data, table.key)))
            ELSE Store(table_data, table.key, rs)
       ELSE table_data

RECURSIVE TableLoop(_, _)
TableLoop(table_data, tables) ==
  IF tables = <<>> THEN table_data
  ELSE TableLoop(TableStep(table_data, Head(tables)), Tail(tables))

\* hc_extract_table_data_bs4(soup), for the tables of the page in document order
hc_extract_table_data_bs4(tables) == TableLoop({}, tables)

(***************************************************************************)
(* The functions applied on their own: an argument is drawn, and the       *)
(* functions that take it are applied, each to the result of the last      *)
(* where the types allow it.                                               *)
(***************************************************************************)
MaxText == 3      \* characters of a field text
MaxPieces == 2    \* phrases a licence label is made of
MaxApply == 2     \* applications in a row

RECURSIVE Texts(_, _)
\* the texts of up to n characters over an alphabet
Texts(alphabet, n) ==
  IF n = 0 THEN {<<>>}
  ELSE LET shorter == Texts(alphabet, n - 1) IN
       shorter \cup {Append(t, c) : t \in shorter, c \in alphabet}

\* field texts: the characters clean_key rewrites or strips, and a letter
FieldTexts == Texts({"zhi3", "*", " ", "-", "a"}, MaxText)

\* the phrases check_license_type looks for, and a phrase it does not
Phrases ==
  { <<"zao", "zi">>, <<"jian", "zi">>, <<"jian", "zao">>, <<"shi", "zi">>,
    <<"bian", "shi", "zi">>, <<"shi", "yong", "zhi", "zhao">>, <<"yong", "zi">>,
    <<"za", "xiang">> }

RECURSIVE Labels(_)
\* the labels made of up to n phrases
Labels(n) ==
  IF n = 0 THEN {<<>>}
  ELSE LET shorter == Labels(n - 1) IN
       shorter \cup {l \o ph : l \in shorter, ph \in Phrases}

\* dates from 1912 on: the first day of the era, one-, two- and three-digit
\* years of the era, a leap day, the ends of a year
Dates ==
  { <<1912, 1, 1>>, <<1920, 10, 5>>, <<1999, 12, 31>>, <<2011, 1, 1>>,
    <<2024, 2, 29>>, <<2024, 1, 5>>, <<2024, 11, 30>> }

\* site names: the supported ones, and some that are not
SiteNames ==
  {get_supported_cities[i] : i \in 1..Len(get_supported_cities)} \cup {"Taipei", "keelung", ""}

MaxSpan == 6      \* days from the start of a range to its end
MaxStep == 3      \* days of a step

\* <<start, end, step>> with start <= end and a positive step, over a month end,
\* a leap day and a year end
DateRanges ==
  {<<d, AddDays(d, n), step>> :
     d \in {<<2024, 1, 1>>, <<2024, 2, 27>>, <<2023, 12, 29>>}, n \in 0..MaxSpan, step \in 1..MaxStep}

MaxRows == 2      \* rows of a table after its header row

\* the row_data of a table row: a serial number only, one field, another
\* field, both fields
RowData ==
  { {<<"serial", "1">>}, {<<"serial", "1">>, <<"name", "A">>}, {<<"name", "B">>},
    {<<"name", "C">>, <<"area", "9">>} }

\* pages of two tables; the second may resolve to the title of the first
Pages ==
  {<<[title |-> t1, key |-> "floors", rows |-> r1], [title |-> t2, key |-> k2, rows |-> r2]>> :
     t1 \in {"prev", "parent"}, t2 \in {"prev", "parent", "none"}, k2 \in {"floors", "lots"},
     r1 \in Texts(RowData, MaxRows), r2 \in Texts(RowData, MaxRows)}

Arguments ==
  [kind : {"page"}, v : Pages] \cup
  [kind : {"range"}, v : DateRanges] \cup
  [kind : {"text"}, v : FieldTexts] \cup
  [kind : {"label"}, v : Labels(MaxPieces)] \cup
  [kind : {"date"}, v : Dates] \cup
  [kind : {"city_name"}, v : SiteNames] \cup
  [kind : {"refiner"}, v : Refiners]

NormInit ==
  /\ family = "A"
  /\ start_date = <<2024, 1, 5>>
  /\ end_date = <<2024, 1, 5>>
  /\ source = "none"
  /\ faults = 0
  /\ pc = "start"
  /\ unit = 0
  /\ start = FirstOffset
  /\ rows = <<>>
  /\ row_i = 0
  /\ refined_data = None
  /\ total_count = 0
  /\ requests = <<>>
  /\ logs = <<>>
  /\ yielded = <<>>
  /\ yield_units = <<>>
  /\ processed = [u \in 1..Len(Units) |-> 0]
  /\ workbooks = InitWorkbooks
  /\ worksheets = InitWorksheets
  /\ city_name = Cities[1]
  /\ calls = <<>>
  /\ saved_files = None
  /\ disk = NoFiles
  /\ task = None
  /\ client = NoClient
  /\ value \in Arguments
  /\ applied = <<>>
  /\ tasks = None
  /\ runs = None

\* f(value) is computed; the result is the next argument
Apply(op, arg, out, kind) ==
  /\ Len(applied) < MaxApply
  /\ applied' = Append(applied, [op |-> op, arg |-> arg, out |-> out])
  /\ value' = [kind |-> kind, v |-> out]
  /\ UNCHANGED <<family, start_date, end_date, source, faults, pc, unit, start, rows, row_i,
                 refined_data, total_count, requests, logs, yielded, yield_units, processed,
                 workbooks, worksheets, city_name, calls, saved_files, disk, task, client,
                 tasks, runs>>

\* clean_key(key)
CleanKey ==
  /\ value.kind = "text"
  /\ Apply("clean_key", value.v, clean_key(value.v), "text")

\* tw_year_format(d, slash)
Format ==
  /\ value.kind = "date"
  /\ \E slash \in BOOLEAN :
       Apply("tw_year_format", <<value.v, slash>>, tw_year_format(value.v, slash), "date_str")

\* tw_str_to_date(date_str)
Parse ==
  /\ value.kind = "date_str"
  /\ Apply("tw_str_to_date", value.v, tw_str_to_date(value.v), "parsed")

\* check_license_type(s)
Classify ==
  /\ value.kind = "label"
  /\ Apply("check_license_type", value.v, check_license_type(value.v), "license_type")

\* get_crawler(city_name, start_date, end_date)
GetCrawler ==
  /\ value.kind = "city_name"
  /\ Apply("get_crawler", value.v, get_crawler(value.v, start_date, end_date), "crawler")

\* refine_*(row): the record of a row the refiner does not reject
Refine ==
  /\ value.kind = "refiner"
  /\ Apply("refine", value.v, RefinedKeys(value.v), "keys")

\* list(generate_dates(start_date, end_date, timedelta(days=delta)))
GenerateDates ==
  /\ value.kind = "range"
  /\ Apply("generate_dates", value.v, generate_dates(value.v[1], value.v[2], value.v[3]), "dates")

\* hc_extract_table_data_bs4(soup)
ExtractTables ==
  /\ value.kind = "page"
  /\ Apply("hc_extract_table_data_bs4", value.v, hc_extract_table_data_bs4(value.v), "table_data")

NormNext ==
  \/ ExtractTables
  \/ GenerateDates
  \/ CleanKey
  \/ Format
  \/ Parse
  \/ Classify
  \/ GetCrawler
  \/ Refine

NormSpec == NormInit /\ [][NormNext]_vars

\* the applications of a function, in the order they were made
Applications(op) == SelectSeq(applied, LAMBDA a : a.op = op)

(***************************************************************************)
(* Reading the histories                                                   *)
(***************************************************************************)
\* the requests of kind `kind` made while unit u was the current unit, in order
ReqsOf(u, kind) == SelectSeq(requests, LAMBDA r : r.unit = u /\ r.kind = kind)

\* the outer loop has left unit u behind
UnitOver(u) == u <= unit /\ (u < unit \/ pc = "done")

\* how many items unit u yielded
YieldsOf(u) == Len(SelectSeq(yield_units, LAMBDA v : v = u))

PageFailures == {"http_error", "json_error"}

(***************************************************************************)
(* C1 as stated: in Family A, the paging of every (year, permit type) goes *)
(* on until a page returns fewer than 100 rows or none, and every row the  *)
(* source has up to that short page is processed.  So once the offset loop *)
(* of a unit is over, its last request returned a short page and all the   *)
(* rows of the unit were processed.                                        *)
(***************************************************************************)
C1_PagingUntilShortPage ==
  family = "A" =>
    \A u \in 1..Len(Units) :
      UnitOver(u) =>
        LET rq == ReqsOf(u, "page") IN
        /\ rq # <<>>
        /\ rq[Len(rq)].outcome = "ok"
        /\ rq[Len(rq)].n < 100
        /\ processed[u] = SourceSize(source, u)

(***************************************************************************)
(* C1 as amended: in Family A, for every (year, permit type) the pages are *)
(* requested at offsets 1, 101, 201, ... and the paging goes on until a    *)
(* page returns fewer than 100 rows or none, a page request fails, or the  *)
(* page at offset 4901 has been requested.  No request for the unit comes  *)
(* after a short or failed page, every row of every page fetched is        *)
(* processed, and pages of 100, 100 and 50 rows give 250 rows in exactly 3 *)
(* requests.                                                               *)
(***************************************************************************)
C1_Paging ==
  family = "A" =>
    \A u \in 1..Len(Units) :
      LET rq == ReqsOf(u, "page")
          n == Len(rq)
          fetched == Len(SelectSeq(rq, LAMBDA r : r.outcome = "ok"))
      IN /\ \A k \in 1..n :
              /\ rq[k].arg = [Start |-> 1 + 100 * (k - 1),
                              license_type |-> Units[u][2], year |-> Units[u][1]]
              /\ k < n => rq[k].outcome = "ok" /\ rq[k].n = 100
         /\ UnitOver(u) =>
              /\ n >= 1
              /\ \/ rq[n].outcome \in PageFailures
                 \/ rq[n].outcome = "ok" /\ rq[n].n < 100
                 \/ rq[n].arg.Start = 4901
              /\ processed[u] = Min(SourceSize(source, u), 100 * fetched)
              /\ (source = "three" /\ fetched = n) => n = 3 /\ YieldsOf(u) = 250

\* pages of 100, 100 and 50 rows were fetched for the first unit, and the crawl is done
C1_Witness ==
  /\ family = "A" /\ source = "three" /\ pc = "done"
  /\ LET rq == ReqsOf(1, "page") IN
     /\ Len(rq) = 3
     /\ rq[1].outcome = "ok" /\ rq[1].n = 100
     /\ rq[2].outcome = "ok" /\ rq[2].n = 100
     /\ rq[3].outcome = "ok" /\ rq[3].n = 50
  /\ YieldsOf(1) = 250

(***************************************************************************)
(* C2: no adapter yields a record of permit type "other", and every row of *)
(* the occupancy artifact is of permit type occupancy.                     *)
(***************************************************************************)
C2_NoOtherYielded ==
  /\ \A i \in 1..Len(yielded) : yielded[i].data.type \in {"construction", "occupancy"}
  /\ \A i \in 1..Len(workbooks["occupancy"]) :
       \A j \in 1..Len(workbooks["occupancy"][i].rows) :
          workbooks["occupancy"][i].rows[j].data.type = "occupancy"

(***************************************************************************)
(* C3: no transport failure and no malformed or unexpectedly shaped        *)
(* payload of a pagination unit makes fetch_data raise to its caller.      *)
(***************************************************************************)
C3_NeverRaises == pc # "raised"

(***************************************************************************)
(* C4 as stated: in Family A, a transport error or malformed JSON on the   *)
(* page at one offset aborts only that page, and the adapter continues     *)
(* with the page at the next offset of the same (year, permit type).  So   *)
(* a failed request at an offset that is not the last of the range is      *)
(* followed by the request of the same unit at the next offset.            *)
(***************************************************************************)
C4_ContinuesWithNextOffset ==
  family = "A" =>
    \A k \in 1..Len(requests) :
      (/\ requests[k].outcome \in PageFailures
       /\ requests[k].arg.Start + 100 < 5000
       /\ (k < Len(requests) \/ pc = "done")) =>
         /\ k < Len(requests)
         /\ requests[k + 1].unit = requests[k].unit
         /\ requests[k + 1].arg.Start = requests[k].arg.Start + 100

(***************************************************************************)
(* C4 as amended: in Family A, a transport error or malformed JSON on a    *)
(* page is logged and ends the paging of that (year, permit type): no      *)
(* further offset of it is requested, the adapter goes on with offset 1 of *)
(* the next (year, permit type), or ends with the completion line after    *)
(* the last one, and the crawl as a whole is not aborted: every (year,     *)
(* permit type) of the window is requested.                                *)
(***************************************************************************)
C4_PageFailureEndsUnit ==
  family = "A" =>
    /\ \A k \in 1..Len(requests) :
         requests[k].outcome \in PageFailures =>
           /\ \E i \in 1..Len(logs) :
                logs[i] = Log(requests[k].outcome, requests[k].arg)
           /\ \A j \in (k + 1)..Len(requests) : requests[j].unit # requests[k].unit
           /\ k < Len(requests) =>
                /\ requests[k + 1].unit = requests[k].unit + 1
                /\ requests[k + 1].arg.Start = 1
           /\ k = Len(requests) =>
                \/ /\ pc = "done"
                   /\ requests[k].unit = Len(Units)
                   /\ logs[Len(logs)].kind = "done"
                \/ /\ pc = "page"
                   /\ unit = requests[k].unit + 1
                   /\ start = 1
    /\ pc = "done" => \A u \in 1..Len(Units) : ReqsOf(u, "page") # <<>>

\* a page of a unit with rows left failed; the next unit was crawled and yielded
C4_Witness ==
  /\ family = "A" /\ pc = "done"
  /\ \E k \in 1..Len(requests) :
       LET u == requests[k].unit IN
       /\ requests[k].outcome \in PageFailures
       /\ processed[u] < SourceSize(source, u)
       /\ u < Len(Units)
       /\ YieldsOf(u + 1) > 0

(***************************************************************************)
(* C5: in Families B, C and D, when the list query of a day or batch fails *)
(* (a transport error or a body that does not parse), the adapter logs the *)
(* failure, yields no record from that unit, makes no other request for    *)
(* it, goes on with the list query of the next unit, and by the end of the *)
(* crawl has queried every later unit of the window.                       *)
(***************************************************************************)
C5_ListFailureSkipsUnit ==
  family \in {"B", "C", "D"} =>
    LET failed == {k \in 1..Len(requests) :
                     requests[k].kind \in {"list", "expand"} /\ requests[k].outcome # "ok"}
        lines == {i \in 1..Len(logs) :
                    logs[i].kind \in {"http_error", "json_error", "unit_error"}}
    IN /\ Cardinality(lines) = Cardinality(failed)
       /\ \A k \in failed :
            LET u == requests[k].unit IN
            /\ \E i \in lines :
                 /\ logs[i].kind = requests[k].outcome
                 /\ family # "C" => logs[i].ref = Units[u]
            /\ YieldsOf(u) = 0
            /\ \A j \in (k + 1)..Len(requests) : requests[j].unit # u
            /\ (k < Len(requests)) =>
                 requests[k + 1].unit = u + 1 /\ requests[k + 1].kind = "list"
            /\ (k = Len(requests) /\ u < Len(Units)) => pc = "list" /\ unit = u + 1
            /\ pc = "done" => \A v \in (u + 1)..Len(Units) : ReqsOf(v, "list") # <<>>

\* the list query of a unit with rows failed and a later unit yielded
C5_Witness ==
  /\ family \in {"B", "C", "D"} /\ pc = "done"
  /\ \E k \in 1..Len(requests) :
       LET u == requests[k].unit IN
       /\ requests[k].kind \in {"list", "expand"} /\ requests[k].outcome # "ok"
       /\ ListRows(source, u) # <<>>
       /\ u < Len(Units)
       /\ YieldsOf(u + 1) > 0

(***************************************************************************)
(* C6: in Families B, C and D, when the detail request of one identifier,  *)
(* or its parsing, fails, the adapter logs a line with that identifier,    *)
(* yields no record for it and makes no other request for it, and the      *)
(* other identifiers of the day or batch are still looked up: once a unit  *)
(* whose list query succeeded is over, a detail request was made for each  *)
(* identifier of its list, once and in the order of the list.              *)
(***************************************************************************)
C6_DetailFailureSkipsRecord ==
  family \in {"B", "C", "D"} =>
    LET failed == {k \in 1..Len(requests) :
                     requests[k].kind \in {"detail", "sched"} /\ requests[k].outcome # "ok"}
        lines == {i \in 1..Len(logs) : logs[i].kind = "detail_error"}
        wanted(u) == IF family = "D" THEN ListKeys(source, u)
                     ELSE LET rs == SelectSeq(ListRows(source, u), Wanted)
                          IN [i \in 1..Len(rs) |-> rs[i].key]
        listed(u) == LET rq == ReqsOf(u, IF family = "D" THEN "expand" ELSE "list")
                     IN rq # <<>> /\ rq[1].outcome = "ok"
    IN /\ Cardinality(lines) = Cardinality(failed)
       /\ \A k \in failed :
            /\ \E i \in lines : logs[i].ref = requests[k].arg
            /\ \A i \in 1..Len(yielded) : yielded[i].index_key # requests[k].arg
            /\ \A j \in (k + 1)..Len(requests) : requests[j].arg # requests[k].arg
       /\ \A u \in 1..Len(Units) :
            (UnitOver(u) /\ listed(u)) =>
               LET rq == ReqsOf(u, "detail")
               IN /\ Len(rq) = Len(wanted(u))
                  /\ \A i \in 1..Len(rq) : rq[i].arg = wanted(u)[i]

\* the detail of an identifier failed, and a later identifier of the same unit
\* was looked up and yielded
C6_Witness ==
  /\ family \in {"B", "C", "D"} /\ pc = "done"
  /\ \E k \in 1..Len(requests) :
       /\ requests[k].kind \in {"detail", "sched"} /\ requests[k].outcome # "ok"
       /\ \E i \in 1..Len(yielded) :
            /\ yield_units[i] = requests[k].unit
            /\ \E j \in (k + 1)..Len(requests) :
                 requests[j].kind = "detail" /\ requests[j].arg = yielded[i].index_key

(***************************************************************************)
(* C7: no pagination unit is retried.  In Families B, C and D the list     *)
(* queries of one fetch are those of the units of the window, one per      *)
(* unit, in ascending date order, and after a successful handshake every   *)
(* unit has been queried once when the fetch ends, whatever errors         *)
(* occurred; in Family D the expansion of a day is requested at most once. *)
(* In Family A no (year, permit type, offset) page is requested twice.     *)
(***************************************************************************)
C7_NoRetry ==
  /\ family \in {"B", "C", "D"} =>
       LET L == SelectSeq(requests, LAMBDA r : r.kind = "list")
           handshake == /\ requests # <<>>
                        /\ requests[1].kind = "init" /\ requests[1].outcome = "ok"
                        /\ family = "D" => requests[1].arg = {"query_id", "nbupicpkey"}
       IN /\ Len(L) <= Len(Units)
          /\ \A i \in 1..Len(L) :
               /\ L[i].unit = i
               /\ i > 1 => DateLT(Units[i - 1], Units[i])
               /\ L[i].arg = CASE family = "B" -> tw_year_format(Units[i], FALSE)
                               [] family = "D" -> tw_year_format(Units[i], TRUE)
                               [] OTHER -> <<tw_year_format(Units[i], FALSE),
                                             tw_year_format(to_date(Units[i]), FALSE)>>
          /\ (pc = "done" /\ handshake) => Len(L) = Len(Units)
          /\ \A u \in 1..Len(Units) : Len(ReqsOf(u, "expand")) <= 1
  /\ family = "A" =>
       \A i, j \in 1..Len(requests) :
          (i < j) => <<requests[i].unit, requests[i].arg>> # <<requests[j].unit, requests[j].arg>>

\* a fetch of several units ended after a list query and a detail request had failed
C7_Witness ==
  /\ family \in {"B", "C", "D"} /\ pc = "done"
  /\ Len(Units) >= 2
  /\ Len(SelectSeq(requests, LAMBDA r : r.kind = "list")) = Len(Units)
  /\ \E k \in 1..Len(requests) : requests[k].kind = "list" /\ requests[k].outcome # "ok"
  /\ \E k \in 1..Len(requests) : requests[k].kind = "detail" /\ requests[k].outcome # "ok"

(***************************************************************************)
(* C8: in Family D, when the landing page lacks either of the two session  *)
(* tokens, or the handshake request itself fails, fetch_data yields no     *)
(* record, makes no further request, logs exactly one line reporting the   *)
(* failure, and ends without raising.                                      *)
(***************************************************************************)
C8_HandshakeFailureEndsCrawl ==
  (/\ family = "D"
   /\ requests # <<>>
   /\ \/ requests[1].outcome # "ok"
      \/ "query_id" \notin requests[1].arg
      \/ "nbupicpkey" \notin requests[1].arg) =>
     /\ pc = "done"
     /\ yielded = <<>>
     /\ total_count = 0
     /\ Len(requests) = 1
     /\ Cardinality({i \in 1..Len(logs) : logs[i].kind \notin {"init"}}) = 1
     /\ logs[Len(logs)].kind \in {"auth_error", "init_error"}

\* the landing page carried one of the two tokens only
C8_Witness ==
  /\ family = "D" /\ pc = "done"
  /\ requests # <<>>
  /\ requests[1].outcome = "ok"
  /\ Cardinality(requests[1].arg) = 1
  /\ Units # <<>>

(***************************************************************************)
(* C9: in Family A, every record yielded has a parsed issue date d with    *)
(* start_date <= d <= end_date, which is the date its source row carries;  *)
(* the rows yielded are exactly the rows processed whose date parses and   *)
(* lies in the window (counted when the crawl is over), and the completion *)
(* total counts the records yielded and no other row.                      *)
(***************************************************************************)
C9_YieldedWithinWindow ==
  family = "A" =>
    LET within(d) == d # None /\ DateLE(start_date, d) /\ DateLE(d, end_date)
        issued(u, i) == LET row == RowA(source, u, i)
                        IN IF row.dict THEN tw_str_to_date(clean_key(row.date)) ELSE None
    IN /\ \A k \in 1..Len(yielded) :
            /\ within(yielded[k].date)
            /\ yielded[k].date = tw_str_to_date(yielded[k].data.date_str)
            /\ yielded[k].index_key[1] = yield_units[k]
       /\ pc = "done" =>
            /\ \A k \in 1..Len(yielded) :
                 yielded[k].date = issued(yielded[k].index_key[1], yielded[k].index_key[2])
            /\ \A u \in 1..Len(Units) :
                 YieldsOf(u) = Cardinality({i \in 1..processed[u] : within(issued(u, i))})
       /\ total_count = Len(yielded)
       /\ pc = "done" => logs[Len(logs)] = Log("done", Len(yielded))

\* a unit with rows inside the window, outside it and without a parseable date
\* was crawled to its end
C9_Witness ==
  /\ family = "A" /\ source = "mixed" /\ pc = "done"
  /\ \E u \in 1..Len(Units) :
       /\ processed[u] = SourceSize(source, u)
       /\ YieldsOf(u) > 0
       /\ YieldsOf(u) < processed[u]

(***************************************************************************)
(* C10: in Families B and C, every record yielded has a date within the    *)
(* window [start_date, end_date], whatever dates the source returns.       *)
(***************************************************************************)
C10_DatesWithinWindow ==
  family \in {"B", "C"} =>
    \A k \in 1..Len(yielded) :
       DateLE(start_date, yielded[k].date) /\ DateLE(yielded[k].date, end_date)

(***************************************************************************)
(* C11: in every adapter family, a source row whose issue date is missing  *)
(* or cannot be parsed by tw_str_to_date is never yielded.  Families A, B  *)
(* and C take the date from the row of the page or list; Family D's list   *)
(* carries identifiers only.                                               *)
(***************************************************************************)
C11_UnparsedDateNeverYielded ==
  \A k \in 1..Len(yielded) :
     LET key == yielded[k].index_key
         u == yield_units[k]
     IN CASE family = "A" ->
               tw_str_to_date(clean_key(RowA(source, key[1], key[2]).date)) # None
          [] family \in {"B", "C"} ->
               \A i \in 1..Len(ListRows(source, u)) :
                  ListRows(source, u)[i].key = key =>
                     tw_str_to_date(ListRows(source, u)[i].date) # None
          [] OTHER -> TRUE

(***************************************************************************)
(* C12: in Family C, for a window with start_date <= end_date, the batch   *)
(* queries use the ranges [from, to] that start at start_date, each begin  *)
(* the day after the one before ends and span 3 consecutive days, except   *)
(* the last which is cut at end_date: the ranges are pairwise disjoint and *)
(* cover every day of the window once, and no day outside it.              *)
(***************************************************************************)
C12_BatchesPartitionWindow ==
  (family = "C" /\ DateLE(start_date, end_date)) =>
    LET L == SelectSeq(requests, LAMBDA r : r.kind = "list")
        from(i) == AddDays(start_date, 3 * (i - 1))
        full(i) == AddDays(from(i), 2)
        to(i) == IF DateLE(full(i), end_date) THEN full(i) ELSE end_date
    IN /\ \A i \in 1..Len(L) :
            /\ DateLE(from(i), end_date)
            /\ L[i].arg = <<tw_year_format(from(i), FALSE), tw_year_format(to(i), FALSE)>>
            /\ i < Len(L) => to(i) = full(i) /\ from(i + 1) = NextDay(to(i))
       /\ (pc = "done" /\ requests[1].outcome = "ok") =>
            Len(L) >= 1 /\ to(Len(L)) = end_date

\* a window of four days was queried in a batch of three days and a batch of one
C12_Witness ==
  /\ family = "C" /\ pc = "done"
  /\ LET L == SelectSeq(requests, LAMBDA r : r.kind = "list")
     IN /\ Len(L) = 2
        /\ L[2].arg[1] = L[2].arg[2]
        /\ L[2].arg[2] = tw_year_format(end_date, FALSE)

(***************************************************************************)
(* Reading the writer                                                      *)
(***************************************************************************)
\* the rows of the sheet titled name of workbook wb, none if there is no such sheet
RowsOf(wb, name) ==
  IF \E i \in 1..Len(wb) : wb[i].title = name THEN wb[SheetIndex(wb, name)].rows ELSE <<>>

\* the records among rows, in order
DataOf(rs) ==
  LET ds == SelectSeq(rs, LAMBDA r : ~r.header) IN [i \in 1..Len(ds) |-> ds[i].data]

\* the last call made on the writer, None before the first
LastCall == IF calls = <<>> THEN [op |-> "none", item |-> None] ELSE calls[Len(calls)]

\* the records written so far to the sheet `name` of structure dt, in write order
WrittenTo(dt, name) ==
  LET ws == SelectSeq(calls, LAMBDA c :
               /\ c.op = "write_item"
               /\ c.item.data # None /\ c.item.date # None
               /\ (IF c.item.data.type = "construction" THEN "construction" ELSE "occupancy") = dt
               /\ worksheet_name(c.item.date) = name)
  IN [i \in 1..Len(ws) |-> ws[i].item.data]

SheetKeys == {worksheet_name(d) : d \in WriterDates}

(***************************************************************************)
(* C13: write_item of an item with data and a date appends exactly one     *)
(* record row to the sheet keyed by the 'YYYY-MM' of the item's date in    *)
(* the structure of the record's permit type, and leaves the structure of  *)
(* the other permit type and every other sheet unchanged.                  *)
(***************************************************************************)
C13_WriteAppendsToMatchingStructure ==
  [][ (/\ Len(calls') = Len(calls) + 1
       /\ calls'[Len(calls')].op = "write_item"
       /\ calls'[Len(calls')].item.data # None
       /\ calls'[Len(calls')].item.date # None) =>
        LET item == calls'[Len(calls')].item
            t == item.data.type
            name == worksheet_name(item.date)
        IN /\ t \in {"construction", "occupancy"}
           /\ DataOf(RowsOf(workbooks'[t], name)) =
                 Append(DataOf(RowsOf(workbooks[t], name)), item.data)
           /\ \A o \in {"construction", "occupancy"} \ {t} : workbooks'[o] = workbooks[o]
           /\ \A k \in (SheetKeys \cup {DefaultSheet.title}) \ {name} :
                 RowsOf(workbooks'[t], k) = RowsOf(workbooks[t], k)
    ]_vars

(***************************************************************************)
(* C14: write_item of an item whose data is absent or empty, or whose date *)
(* is absent, is a no-op: no sheet is created and no row is added in       *)
(* either structure.                                                       *)
(***************************************************************************)
C14_WriteWithoutDataOrDateIsNoOp ==
  [][ (/\ Len(calls') = Len(calls) + 1
       /\ calls'[Len(calls')].op = "write_item"
       /\ \/ calls'[Len(calls')].item.data = None
          \/ calls'[Len(calls')].item.date = None) =>
        /\ workbooks' = workbooks
        /\ worksheets' = worksheets
        /\ disk' = disk
    ]_vars

\* an item without a date, and one without data, were written after a record
C14_Witness ==
  /\ Len(calls) >= 3
  /\ calls[1].op = "write_item" /\ calls[1].item.data # None /\ calls[1].item.date # None
  /\ \E i, j \in 2..Len(calls) :
       /\ calls[i].op = "write_item" /\ calls[i].item.date = None
       /\ calls[j].op = "write_item" /\ calls[j].item.data = None
  /\ \E t \in {"construction", "occupancy"} : Len(workbooks[t]) = 2

(***************************************************************************)
(* C15: after any sequence of write_item calls, every 'YYYY-MM' sheet of   *)
(* either structure is one header row, written when the key was first      *)
(* used, followed by one row per record written to that key, in write      *)
(* order; a key no record was written to has no sheet.                     *)
(***************************************************************************)
C15_SheetIsHeaderThenRecords ==
  \A dt \in {"construction", "occupancy"} :
     /\ \A i \in 1..Len(workbooks[dt]) :
           /\ workbooks[dt][i].title \in SheetKeys \cup {DefaultSheet.title}
           /\ \A j \in 1..Len(workbooks[dt]) :
                 i # j => workbooks[dt][i].title # workbooks[dt][j].title
     /\ \A name \in SheetKeys :
          LET written == WrittenTo(dt, name)
              rs == RowsOf(workbooks[dt], name)
          IN IF written = <<>>
             THEN \A i \in 1..Len(workbooks[dt]) : workbooks[dt][i].title # name
             ELSE /\ Len(rs) = Len(written) + 1
                  /\ rs[1] = [header |-> TRUE, data |-> written[1]]
                  /\ \A i \in 1..Len(written) :
                        rs[i + 1] = [header |-> FALSE, data |-> written[i]]

\* two records were written to one key, with a save and a record of another key between
C15_Witness ==
  \E dt \in {"construction", "occupancy"}, name \in SheetKeys :
     /\ Len(WrittenTo(dt, name)) = 2
     /\ Len(calls) = 4
     /\ calls[1].op = "write_item" /\ calls[4].op = "write_item"
     /\ calls[1].item.date # None /\ calls[4].item.date # None
     /\ worksheet_name(calls[1].item.date) = name
     /\ worksheet_name(calls[4].item.date) = name
     /\ calls[2].op = "save"
     /\ calls[3].op = "write_item" /\ Len(workbooks[dt]) = 2

(***************************************************************************)
(* C16: after save(), the sheets of each artifact are in strictly          *)
(* increasing 'YYYY-MM' order, for every order in which the records were   *)
(* written, and also when save() is called again after further writes.     *)
(***************************************************************************)
C16_SavedSheetsAscending ==
  LastCall.op = "save" =>
    \A dt \in {"construction", "occupancy"} :
       LET wb == disk[save_path(city_name, dt)] IN
       /\ wb = workbooks[dt]
       /\ \A i, j \in 1..Len(wb) :
             (i < j) =>
                /\ wb[i].title \in SheetKeys /\ wb[j].title \in SheetKeys
                /\ \E a, b \in WriterDates :
                      /\ wb[i].title = worksheet_name(a)
                      /\ wb[j].title = worksheet_name(b)
                      /\ a[1] < b[1] \/ (a[1] = b[1] /\ a[2] < b[2])

\* save, a record of an earlier month, and save again: the later save put the
\* newer sheet first
C16_Witness ==
  /\ Len(calls) = 4
  /\ calls[1].op = "write_item" /\ calls[2].op = "save"
  /\ calls[3].op = "write_item" /\ calls[4].op = "save"
  /\ \E dt \in {"construction", "occupancy"} :
       /\ Len(workbooks[dt]) = 2
       /\ workbooks[dt][1].rows[2].data = calls[3].item.data
       /\ workbooks[dt][2].rows[2].data = calls[1].item.data

C18_SaveTwiceSameAsOnce ==
  [][ (/\ LastCall.op = "save"
       /\ Len(calls') = Len(calls) + 1
       /\ calls'[Len(calls')].op = "save") =>
        /\ saved_files' = saved_files
        /\ DOMAIN saved_files' = {"construction", "occupancy"}
        /\ saved_files'["construction"] # saved_files'["occupancy"]
        /\ workbooks' = workbooks
        /\ disk' = disk
    ]_vars

\* saved twice in a row, with sheets of two months written later month first
C18_Witness ==
  /\ Len(calls) = 4
  /\ calls[3].op = "save" /\ calls[4].op = "save"
  /\ \E dt \in {"construction", "occupancy"} :
       /\ Len(workbooks[dt]) = 2
       /\ workbooks[dt][1].rows[2].data = calls[2].item.data

(***************************************************************************)
(* C19: when a site's crawl ends early with an error after records were    *)
(* written to the writer, save() is still performed for that site and the  *)
(* artifacts holding those records are returned: once the task has ended,  *)
(* every record a site yielded is in a file listed for that site.          *)
(***************************************************************************)
C19_PartialCrawlStillSaved ==
  task.status \in {"completed", "failed"} =>
    \A k \in 1..Len(yielded) :
       LET city == task.cities[yield_units[k]] IN
       /\ city \in DOMAIN task.files
       /\ \E dt \in {"construction", "occupancy"} :
             LET wb == disk[task.files[city][dt]] IN
             \E i \in 1..Len(wb) : \E j \in 1..Len(wb[i].rows) :
                wb[i].rows[j] = [header |-> FALSE, data |-> yielded[k].data]

(***************************************************************************)
(* C20: in a batch run by run_crawler_task, when the crawl of one site     *)
(* fails with an error, the crawls of the remaining sites are still        *)
(* started and their artifacts saved: once the task has ended, every site  *)
(* other than the one that failed has its files.                           *)
(***************************************************************************)
C20_BatchSurvivesSiteFailure ==
  task.status \in {"completed", "failed"} =>
    \A i \in 1..Len(task.cities) :
       (pc = "raised" /\ i # unit) =>
          /\ task.cities[i] \in DOMAIN task.files
          /\ \A dt \in {"construction", "occupancy"} :
                disk[save_path(task.cities[i], dt)] # None

(***************************************************************************)
(* C21: once cancel_task has marked a queued or running task cancelled,    *)
(* the crawl goes no further than the pagination unit in flight: no crawl  *)
(* of a later site of the batch (and none at all for a task still queued)  *)
(* is started.                                                             *)
(***************************************************************************)
C21_CancelStopsCrawl ==
  [][task.status = "cancelled" => unit' = unit]_vars

(***************************************************************************)
(* C22: the transport session is released on every exit path of            *)
(* "async with crawler": at most one client is open at a time, items are   *)
(* fetched only while the client is open, and once the task has ended      *)
(* (completed, or failed by an exception of fetch_data or of the writer)   *)
(* every client that was opened has been closed.                           *)
(***************************************************************************)
C22_SessionReleased ==
  /\ [](/\ client.opened - client.closed \in {0, 1}
        /\ (client.state = "open") <=> (client.opened = client.closed + 1)
        /\ (task.progress.completed_cities = Len(task.cities) \/ task.error # None)
              => (client.state = "closed" /\ client.opened = unit))
  /\ [][(yielded' # yielded \/ requests' # requests)
           => (client.state = "open" /\ client' = client)]_vars

\* the writer raised on an item of the second site, and the task has ended
C22_Witness ==
  /\ task.error # None
  /\ unit = 2
  /\ Len(yielded) > task.progress.total_records
  /\ client.state = "closed"
  /\ client.closed = 2

(***************************************************************************)
(* C24: a crawl whose end_date is before its start_date issues no network  *)
(* request, in any family.                                                 *)
(***************************************************************************)
C24_ReversedRangeNoRequest ==
  DateLT(end_date, start_date) => requests = <<>>

(***************************************************************************)
(* C25: every fetch_data run that has ended, on every path (the failed     *)
(* handshake included), has logged exactly one completion line, as its     *)
(* last line, and the count of that line is the number of records yielded. *)
(***************************************************************************)
C25_CompletionLineOnEveryPath ==
  pc \in {"done", "raised"} =>
    /\ logs # <<>>
    /\ logs[Len(logs)].kind = "done"
    /\ logs[Len(logs)].ref = Len(yielded)
    /\ Cardinality({k \in 1..Len(logs) : logs[k].kind = "done"}) = 1

(***************************************************************************)
(* C23: get_crawler succeeds exactly for the names get_supported_cities    *)
(* returns, and then returns a crawler of the class configured for the     *)
(* name, built with its static parameter (base URL or organ code); for any *)
(* other name it raises the unsupported-site error, builds no crawler and  *)
(* issues no request.                                                      *)
(***************************************************************************)
C23_GetCrawlerExactlySupported ==
  \A k \in 1..Len(applied) :
     applied[k].op = "get_crawler" =>
        LET name == applied[k].arg
            r == applied[k].out
            supported == \E i \in 1..Len(get_supported_cities) : get_supported_cities[i] = name
        IN /\ r.ok <=> supported
           /\ r.ok =>
                /\ r.crawler.class = CITY_CONFIG[name].crawler_class
                /\ r.crawler.city_name = name
                /\ r.crawler.kw =
                     {<<key, CITY_CONFIG[name][key]>> :
                        key \in DOMAIN CITY_CONFIG[name] \cap {"base_url", "organ"}}
           /\ ~r.ok => (r = [ok |-> FALSE, raised |-> "ValueError"])
           /\ requests = <<>>
           /\ client = NoClient

\* a crawler was built for a site of the token-based family, with its organ code
C23_Witness ==
  \E k \in 1..Len(applied) :
     /\ applied[k].op = "get_crawler"
     /\ applied[k].arg = "Tainan"
     /\ applied[k].out.ok
     /\ applied[k].out.crawler.class = "NBUPICCrawler"
     /\ applied[k].out.crawler.kw = {<<"organ", "IF0">>}

(***************************************************************************)
(* C26: the record any of the four refiners returns has the same set of    *)
(* exactly 39 named fields.                                                *)
(***************************************************************************)
C26_SameThirtyNineFields ==
  \A k \in 1..Len(applied) :
     applied[k].op = "refine" =>
        /\ Cardinality(applied[k].out) = 39
        /\ \A r \in Refiners : applied[k].out = RefinedKeys(r)

(***************************************************************************)
(* C27: clean_key is idempotent: applied to its own result it returns that *)
(* result.                                                                 *)
(***************************************************************************)
C27_CleanKeyIdempotent ==
  \A k \in 1..Len(applied) :
     applied[k].op = "clean_key" => clean_key(applied[k].out) = applied[k].out

(***************************************************************************)
(* C28: tw_str_to_date(tw_year_format(d, slash)) = d for every date from   *)
(* 1912 on and both values of slash.                                       *)
(***************************************************************************)
C28_FormatParseRoundTrip ==
  \A k \in 2..Len(applied) :
     (applied[k].op = "tw_str_to_date" /\ applied[k - 1].op = "tw_year_format") =>
        applied[k].out = applied[k - 1].arg[1]

(***************************************************************************)
(* C29: a label that contains a construction phrase and an occupancy       *)
(* phrase is classified as construction.                                   *)
(***************************************************************************)
C29_ConstructionWins ==
  \A k \in 1..Len(applied) :
     applied[k].op = "check_license_type" =>
        LET s == applied[k].arg IN
        ( /\ \E ph \in {<<"zao", "zi">>, <<"jian", "zi">>, <<"jian", "zao">>} : Contains(s, ph)
          /\ \E ph \in {<<"shi", "zi">>, <<"shi", "yong", "zhi", "zhao">>, <<"yong", "zi">>} :
                Contains(s, ph) )
        => applied[k].out = "construction"

\* a label with an occupancy phrase before a construction phrase was classified
C29_Witness ==
  \E k \in 1..Len(applied) :
     /\ applied[k].op = "check_license_type"
     /\ applied[k].arg = <<"shi", "zi", "zao", "zi">>
     /\ applied[k].out = "construction"

(***************************************************************************)
(* C30: a label that contains the change-of-use phrase is classified as    *)
(* 'other'.                                                                *)
(***************************************************************************)
C30_ChangeOfUseIsOther ==
  \A k \in 1..Len(applied) :
     (applied[k].op = "check_license_type" /\ Contains(applied[k].arg, <<"bian", "shi", "zi">>))
        => applied[k].out = "other"

(***************************************************************************)
(* C31 as stated: generate_dates(start, end, step) with start <= end and a *)
(* positive step yields an ascending sequence that includes both start and *)
(* end, for every step.                                                    *)
(***************************************************************************)
C31_BothEndpointsForEveryStep ==
  \A k \in 1..Len(applied) :
     applied[k].op = "generate_dates" =>
        LET out == applied[k].out IN
        /\ out # <<>>
        /\ out[1] = applied[k].arg[1]
        /\ out[Len(out)] = applied[k].arg[2]
        /\ \A i \in 1..Len(out) - 1 : DateLT(out[i], out[i + 1])

(***************************************************************************)
(* C31: generate_dates(start, end, step) with start <= end and a positive  *)
(* step yields the finite ascending sequence start, start + step, ... of   *)
(* the dates that are not after end: it includes start, and its last date  *)
(* is less than one step before end or end itself (end is included exactly *)
(* when end - start is a multiple of the step, so always for a step of one *)
(* day).                                                                   *)
(***************************************************************************)
C31_StepsFromStartUpToEnd ==
  \A k \in 1..Len(applied) :
     applied[k].op = "generate_dates" =>
        LET out == applied[k].out
            end == applied[k].arg[2]
            step == applied[k].arg[3]
        IN /\ out # <<>>
           /\ out[1] = applied[k].arg[1]
           /\ \A i \in 1..Len(out) - 1 : out[i + 1] = AddDays(out[i], step)
           /\ \A i \in 1..Len(out) : DateLE(out[i], end)
           /\ DateLT(end, AddDays(out[Len(out)], step))
           /\ step = 1 => out[Len(out)] = end

\* a range of six days was stepped through by three: the end is not yielded
C31_Witness ==
  \E k \in 1..Len(applied) :
     /\ applied[k].op = "generate_dates"
     /\ applied[k].arg = <<(<<2024, 2, 27>>), (<<2024, 3, 3>>), 3>>
     /\ applied[k].out = <<(<<2024, 2, 27>>), (<<2024, 3, 1>>)>>

(***************************************************************************)
(* C32: when the two tables of a page resolve to the same title, the rows  *)
(* stored under it are, row by row, the union of the fields of the two     *)
(* tables' rows, and a field both rows have holds the later table's value. *)
(***************************************************************************)
C32_LaterTableWins ==
  \A k \in 1..Len(applied) :
     applied[k].op = "hc_extract_table_data_bs4" =>
        LET first == applied[k].arg[1]
            second == applied[k].arg[2]
            a == TableRows(first)
            b == TableRows(second)
        IN (second.title # "none" /\ second.key = first.key) =>
              LET stored == Stored(applied[k].out, first.key) IN
              \A i \in 1..Min(Len(a), Len(b)) :
                 /\ i <= Len(stored)
                 /\ stored[i] = b[i] \cup {kv \in a[i] : kv[1] \notin Keys(b[i])}

(***************************************************************************)
(* C33: in Family D a record is yielded only after its detail request and  *)
(* then its progress request succeeded; its five progress fields hold the  *)
(* values of the progress record ('' for a field that record lacks); and   *)
(* no record is yielded for a key whose progress request failed.           *)
(***************************************************************************)
C33_ProgressMerged ==
  family = "D" =>
    /\ \A k \in 1..Len(yielded) :
          LET key == yielded[k].index_key
              additional_data == ScheduleOf(key)
          IN /\ \E i \in 1..Len(requests) : \E j \in (i + 1)..Len(requests) :
                   /\ requests[i].kind = "detail" /\ requests[i].arg = key
                   /\ requests[i].outcome = "ok" /\ requests[i].unit = yield_units[k]
                   /\ requests[j].kind = "sched" /\ requests[j].arg = key
                   /\ requests[j].outcome = "ok" /\ requests[j].unit = yield_units[k]
             /\ \A f \in ProgressFields :
                   yielded[k].data.progress[f] =
                      IF \E kv \in additional_data : kv[1] = f
                      THEN (CHOOSE kv \in additional_data : kv[1] = f)[2]
                      ELSE <<>>
    /\ \A j \in 1..Len(requests) :
          (requests[j].kind = "sched" /\ requests[j].outcome # "ok") =>
             \A k \in 1..Len(yielded) : yielded[k].index_key # requests[j].arg
    /\ Len(yielded) = Cardinality({j \in 1..Len(requests) :
                                      requests[j].kind = "sched" /\ requests[j].outcome = "ok"})

\* a record was yielded with the progress the site reports, another key's
\* progress request failed
C33_Witness ==
  /\ family = "D"
  /\ \E k \in 1..Len(yielded) :
        /\ yielded[k].index_key = <<"k", "1">>
        /\ yielded[k].data.progress["reported_progress"] = <<"1", "0", "0">>
        /\ yielded[k].data.progress["completion_deadline"] # <<>>
  /\ \E j \in 1..Len(requests) : requests[j].kind = "sched" /\ requests[j].outcome # "ok"

C34_CancelledIsTerminal ==
  [][task.status = "cancelled" => task'.status = "cancelled"]_vars

(***************************************************************************)
(* C35: after every step of run_crawler_task, its error path included, the *)
(* log list of the task holds at most 100 entries, and they are the most   *)
(* recent lines the task was given, in order.                              *)
(***************************************************************************)
C35_LogsCapped ==
  /\ Len(task.logs) <= LogCap
  /\ task.logs = SubSeq(logs, Len(logs) - Min(LogCap, Len(logs)) + 1, Len(logs))

(***************************************************************************)
(* C37: whenever the status of a task is COMPLETED, task['files'] has an   *)
(* entry with both artifact paths for every city of the task, both files   *)
(* were written, and completed_cities equals total_cities.                 *)
(***************************************************************************)
C37_CompletedMeansAllCitiesDone ==
  task.status = "completed" =>
    /\ \A i \in 1..Len(task.cities) :
          /\ task.cities[i] \in DOMAIN task.files
          /\ DOMAIN task.files[task.cities[i]] = {"construction", "occupancy"}
          /\ \A dt \in {"construction", "occupancy"} :
                /\ task.files[task.cities[i]][dt] = save_path(task.cities[i], dt)
                /\ disk[save_path(task.cities[i], dt)] # None
    /\ task.progress.completed_cities = task.progress.total_cities
    /\ task.progress.total_cities = Len(task.cities)

\* a task of two cities has completed with records written
C37_Witness ==
  /\ task.status = "completed"
  /\ Len(task.cities) = 2
  /\ task.progress.completed_cities = 2
  /\ task.progress.total_records >= 1
  /\ DOMAIN task.files = {"Keelung", "Kaohsiung"}

(***************************************************************************)
(* C38: every fetch_data run ends (by returning or by raising) when each   *)
(* request returns a response or an error, and until then the requests are *)
(* bounded: in Family A at most 50 pages per (year, permit type); in the   *)
(* other families one handshake, and per day or batch one list query (and  *)
(* one expansion) and at most one detail (and one progress) request per    *)
(* row of the list.                                                        *)
(***************************************************************************)
C38_FetchTerminates ==
  /\ [](/\ Len(ReqsOf(0, "init")) <= 1
        /\ \A u \in 1..Len(Units) :
              /\ Len(ReqsOf(u, "page")) <= 50
              /\ family # "A" =>
                    /\ Len(ReqsOf(u, "list")) <= 1
                    /\ Len(ReqsOf(u, "expand")) <= 1
                    /\ Len(ReqsOf(u, "detail")) <= Len(ListRows(source, u))
                    /\ Len(ReqsOf(u, "sched")) <= Len(ListRows(source, u))
        /\ \A j \in 1..Len(requests) : requests[j].unit \in 0..Len(Units))
  /\ <>Ended

\* Family A has ended after the fifty pages of a unit that has more rows
C38_Witness ==
  /\ family = "A" /\ source = "huge" /\ pc = "done"
  /\ Len(ReqsOf(1, "page")) = 50
  /\ ReqsOf(1, "page")[50].n = PageSize

\* the files of a task hold what its own writers saved: sheets of the month
\* of its own window only, and as many data rows as it counted records
OwnFiles(task_id) ==
  LET t == tasks[task_id]
      books == {disk[t.files[c][dt]] : c \in DOMAIN t.files,
                                       dt \in {"construction", "occupancy"}}
  IN /\ \A wb \in books :
          /\ wb # None
          /\ \A k \in 1..Len(wb) :
               wb[k].title \in {DefaultSheet.title, worksheet_name(t.start_date)}
     /\ \A c \in DOMAIN t.files, dt \in {"construction", "occupancy"} :
          t.files[c][dt] = save_path_in(task_output_dir(task_id), c, dt)

\* the data rows in the files a task lists for a city, counted as get_stats counts
SavedRows(task_id, c) ==
  IF c \in DOMAIN tasks[task_id].files
  THEN LET st == get_stats([dt \in {"construction", "occupancy"} |->
                              disk[tasks[task_id].files[c][dt]]])
       IN st["construction"] + st["occupancy"]
  ELSE 0

\* C39: two run_crawler_task executions running side by side do not interfere.
\* In every step at most one run moves, and a task's entry (status, progress,
\* logs, files) and a run's crawler client and writer change only in a step
\* of that task's own run; a task's files are the ones its own writers saved,
\* holding its own records, and each run opens and closes its own client once
\* per city it crawls.
C39_TasksDoNotInterfere ==
  /\ [](\A task_id \in TaskIds :
          /\ OwnFiles(task_id)
          /\ runs[task_id].client.opened = runs[task_id].i
          /\ runs[task_id].pc = "end" =>
               runs[task_id].client.closed = runs[task_id].client.opened
          /\ tasks[task_id].status = "completed" =>
               tasks[task_id].progress.total_records =
                 SavedRows(task_id, Cities[1]) + SavedRows(task_id, Cities[2]))
  /\ [][\A task_id \in TaskIds :
          /\ (tasks'[task_id] # tasks[task_id] \/ runs'[task_id] # runs[task_id])
               => runs'[task_id].steps = runs[task_id].steps + 1
          /\ runs'[task_id].steps # runs[task_id].steps
               => \A o \in TaskIds \ {task_id} :
                    tasks'[o] = tasks[o] /\ runs'[o] = runs[o]]_vars

\* both tasks crawled the same site at the same time, each yielded a record,
\* and both completed
C39_Witness ==
  /\ \E task_id \in TaskIds : runs[task_id].concurrent
  /\ \A task_id \in TaskIds :
       /\ tasks[task_id].status = "completed"
       /\ tasks[task_id].cities = <<Cities[1]>>
       /\ tasks[task_id].progress.total_records = 1

====
